---- MODULE Spec2Model ----
(***************************************************************************)
(* A model of jolo.py, the devcontainer + git worktree launcher.           *)
(*                                                                         *)
(* The host is one record, the world: the directories and files of the     *)
(* workspaces, git's worktree bookkeeping and the containers the engine    *)
(* knows.  Every command handler (run_default_mode, run_tree_mode, ...)    *)
(* is an operator from a world, the parsed arguments and the outcomes of   *)
(* the external processes it runs to the world it leaves, the external     *)
(* calls it issued, in order, and the way the process ended.  An action of *)
(* a specification is one invocation of the tool.                          *)
(***************************************************************************)
EXTENDS Integers, Naturals, Sequences, FiniteSets, TLC

VARIABLES
    world,      \* the host: file system, git bookkeeping, containers
    inv,        \* the arguments of the last invocation (argparse.Namespace)
    calls,      \* the external calls the last invocation issued, in order
    status,     \* how the last invocation ended: "ok", "fatal" or "crash"
    created,    \* what its last scaffold_devcontainer call returned
    cache,      \* credential refresh, step by step: the cache directories
    pc,         \* credential refresh: the position in setup_credential_cache
    todo,       \* credential refresh: entries the running loop still visits
    inode0,     \* credential refresh: identity of each cache dir at entry
    procs,      \* spawn, step by step: the devcontainer up processes
    cfg,        \* load_config: the config files and the dicts of the process
    parsed_mounts, \* --mount: the arguments, and the mounts parsed so far
    batch_names, \* spawn's naming loop: the worktree_names it built
    stale_worktrees \* find_stale_worktrees: the last call and what it returned

vars ==
    <<world, inv, calls, status, created, cache, pc, todo, inode0, procs, cfg,
      parsed_mounts, batch_names,
      stale_worktrees>>

----------------------------------------------------------------------------
(* Bounds of the model.                                                    *)

\* before any call of find_stale_worktrees
NotAsked == [asked |-> FALSE, git_ok |-> TRUE, found |-> <<>>]

\* user mounts one descriptor may accumulate before the model stops adding
MaxMounts == 1
\* workspaces one spawn batch may ask for
MaxSpawn == 2

----------------------------------------------------------------------------
(* Sequences and strings.                                                  *)

Last(s) == s[Len(s)]
Front(s) == SubSeq(s, 1, Len(s) - 1)
Range(s) == {s[i] : i \in 1..Len(s)}

RECURSIVE FindChar(_, _, _)
\* the first index >= i at which string s holds character c, or 0
FindChar(s, c, i) ==
    IF i > Len(s) THEN 0
    ELSE IF SubSeq(s, i, i) = c THEN i
    ELSE FindChar(s, c, i + 1)

RECURSIVE Split(_, _)
\* str.split(c): the pieces of s between the occurrences of c
Split(s, c) ==
    LET k == FindChar(s, c, 1)
    IN IF k = 0 THEN <<s>>
       ELSE <<SubSeq(s, 1, k - 1)>> \o Split(SubSeq(s, k + 1, Len(s)), c)

RECURSIVE JoinWith(_, _)
\* c.join(parts)
JoinWith(parts, c) ==
    IF Len(parts) = 0 THEN ""
    ELSE IF Len(parts) = 1 THEN parts[1]
    ELSE parts[1] \o c \o JoinWith(Tail(parts), c)

StartsWith(s, c) == Len(s) >= 1 /\ SubSeq(s, 1, 1) = c

\* str.lower() on the strings the model reads
Lower(s) ==
    CASE s = "Y" -> "y"
      [] s = "N" -> "n"
      [] s = "YES" -> "yes"
      [] s = "MyApp" -> "myapp"
      [] OTHER -> s

----------------------------------------------------------------------------
(* Paths: a path is the sequence of its components.                        *)

PathName(p) == Last(p)
PathParent(p) == Front(p)
PathStr(p) == "/" \o JoinWith(p, "/")

NoRoot == <<>>

\* the repository the commands are run in, the directory create makes and
\* a directory outside any repository, for init
MainRoot == <<"dev", "MyApp">>
ProjRoot == <<"tmp", "proj">>
PlainRoot == <<"tmp", "plain">>

get_container_name(project_path, worktree_name) ==
    LET project_name == Lower(PathName(project_path))
    IN IF worktree_name # "" THEN project_name \o "-" \o worktree_name
       ELSE project_name

get_worktree_path(project_path, worktree_name) ==
    LET project_name == PathName(project_path)
        worktrees_dir == Append(PathParent(project_path),
                                project_name \o "-worktrees")
    IN Append(worktrees_dir, worktree_name)

WorktreesDir(git_root) ==
    Append(PathParent(git_root), PathName(git_root) \o "-worktrees")

\* the name without its index
SpawnName_bare(idx, prefix) == prefix

\* spawn's names with a prefix: f"{idx}-{args.prefix}"
SpawnName(idx, prefix) == ToString(idx) \o "-" \o prefix

SpawnPrefix == "feat"
\* the word lists generate_random_name draws from (the model keeps three
\* pairs)
ADJECTIVES == <<"brave", "swift", "calm">>
NOUNS == <<"panda">>
generate_random_name(adj, noun) == adj \o "-" \o noun
RandomNames == {generate_random_name(ADJECTIVES[i], NOUNS[j]) :
                    i \in 1..Len(ADJECTIVES), j \in 1..Len(NOUNS)}

\* the random part the naming loop of spawn falls back to
FallbackPart(idx) == "spawn-" \o ToString(idx)
\* every worktree name the commands below can make, in a fixed order
WtNameOrder ==
    [i \in 1..MaxSpawn |-> SpawnName(i, SpawnPrefix)]
      \o <<"brave-panda">>
      \o [i \in 1..MaxSpawn |-> SpawnName(i, "brave-panda")]
      \o [i \in 1..MaxSpawn |-> SpawnName(i, FallbackPart(i))]
WtNames == {WtNameOrder[i] : i \in 1..Len(WtNameOrder)}
WtPaths == {get_worktree_path(MainRoot, n) : n \in WtNames}
Workspaces == {MainRoot, ProjRoot, PlainRoot} \cup WtPaths

\* a worktree of another repository that has the same directory name
ForeignWt == <<"other", "MyApp-worktrees", "x">>
\* the folders a container may be labelled with, in the order the engine
\* lists them
FolderOrder ==
    <<MainRoot>> \o [i \in 1..Len(WtNameOrder) |->
                        get_worktree_path(MainRoot, WtNameOrder[i])]
        \o <<ForeignWt, ProjRoot, PlainRoot>>
Folders == Range(FolderOrder)

----------------------------------------------------------------------------
(* Files of a workspace's .devcontainer directory.                         *)

Absent == [kind |-> "absent"]
\* a devcontainer.json that json.loads rejects
Malformed == [kind |-> "malformed"]

BASE_MOUNTS == <<
    "source=/tmp/.X11-unix,target=/tmp/.X11-unix,type=bind",
    "source=${localWorkspaceFolder}/.devcontainer/.gemini-cache,target=/home/${localEnv:USER}/.gemini,type=bind",
    "source=${localWorkspaceFolder}/.devcontainer/.claude-cache,target=/home/${localEnv:USER}/.claude,type=bind",
    "source=${localWorkspaceFolder}/.devcontainer/.claude.json,target=/home/${localEnv:USER}/.claude.json,type=bind",
    "source=${localEnv:HOME}/.zshrc,target=/home/${localEnv:USER}/.zshrc,type=bind,readonly",
    "source=${localWorkspaceFolder}/.devcontainer/.histfile,target=/home/${localEnv:USER}/.histfile,type=bind",
    "source=${localEnv:HOME}/.tmux.conf,target=/home/${localEnv:USER}/.tmux.conf,type=bind,readonly",
    "source=${localEnv:HOME}/.gitconfig,target=/home/${localEnv:USER}/.gitconfig,type=bind,readonly",
    "source=${localEnv:HOME}/.config/tmux,target=/home/${localEnv:USER}/.config/tmux,type=bind,readonly",
    "source=${localWorkspaceFolder}/.devcontainer/.emacs-config,target=/home/${localEnv:USER}/.config/emacs,type=bind",
    "source=${localWorkspaceFolder}/.devcontainer/.emacs-cache,target=/home/${localEnv:USER}/.cache/emacs,type=bind",
    "source=${localEnv:HOME}/.cache/emacs-container/elpaca,target=/home/${localEnv:USER}/.cache/emacs/elpaca,type=bind",
    "source=${localEnv:HOME}/.cache/emacs-container/tree-sitter,target=/home/${localEnv:USER}/.cache/emacs/tree-sitter,type=bind",
    "source=${localEnv:HOME}/.gnupg/pubring.kbx,target=/home/${localEnv:USER}/.gnupg/pubring.kbx,type=bind,readonly",
    "source=${localEnv:HOME}/.gnupg/trustdb.gpg,target=/home/${localEnv:USER}/.gnupg/trustdb.gpg,type=bind,readonly",
    "source=${localEnv:XDG_RUNTIME_DIR}/gnupg/S.gpg-agent,target=/home/${localEnv:USER}/.gnupg/S.gpg-agent,type=bind",
    "source=${localEnv:HOME}/.config/gh,target=/home/${localEnv:USER}/.config/gh,type=bind,readonly" >>

WAYLAND_MOUNT ==
    "source=${localEnv:XDG_RUNTIME_DIR}/${localEnv:WAYLAND_DISPLAY},target=/tmp/container-runtime/${localEnv:WAYLAND_DISPLAY},type=bind"

DEFAULT_CONFIG ==
    [base_image |-> "localhost/emacs-gui:latest",
     pass_path_anthropic |-> "api/llm/anthropic",
     pass_path_openai |-> "api/llm/openai",
     agents |-> <<"claude", "gemini", "codex">>,
     agent_commands |-> [claude |-> "claude --dangerously-skip-permissions",
                         gemini |-> "gemini --yolo",
                         codex |-> "codex"],
     base_port |-> 4000]

\* A parsed devcontainer.json.  custom: the file carries keys the tool never
\* writes (a hand edit); fmt: the layout of the text, "indent4" as written
\* by json.dumps(indent=4), "hand" as typed by a user.
build_devcontainer_json(project_name, port, env) ==
    [kind |-> "json",
     name |-> project_name,
     mounts |-> IF env.wayland THEN Append(BASE_MOUNTS, WAYLAND_MOUNT)
                ELSE BASE_MOUNTS,
     port |-> ToString(port),
     custom |-> FALSE,
     fmt |-> "indent4"]

\* DOCKERFILE_TEMPLATE with BASE_IMAGE and CONTAINER_USER substituted
DockerfileContent(config, env) ==
    [kind |-> "dockerfile", image |-> config.base_image, user |-> env.user]

\* a descriptor a user wrote by hand: {"name": "test", "mounts": ["existing"]}
UserDescriptor ==
    [kind |-> "json", name |-> "test", mounts |-> <<"existing">>,
     port |-> "unset", custom |-> TRUE, fmt |-> "hand"]

\* json.dumps(content, indent=4): the same keys, the tool's layout
Dumps(content) == [content EXCEPT !.fmt = "indent4"]

----------------------------------------------------------------------------
(* The world.                                                              *)
(*   dirs      directories that exist (workspaces, worktrees directories)  *)
(*   gitmark   workspaces holding a .git entry, "dir" (a repository) or    *)
(*             "file" (a worktree's pointer), else "none"                  *)
(*   dcdir     workspaces whose .devcontainer directory exists             *)
(*   json      each workspace's .devcontainer/devcontainer.json            *)
(*   docker    each workspace's .devcontainer/Dockerfile                   *)
(*   hist      workspaces whose .devcontainer/.histfile exists             *)
(*   creds     workspaces whose credential caches were populated           *)
(*   emacs     workspaces holding a copy of the host's emacs configuration *)
(*   copied    the --copy targets written into each workspace              *)
(*   committed the .devcontainer the main repository has committed         *)
(*   gitwt     the worktrees git has registered for the main repository,   *)
(*             each with its branch ("" when HEAD is detached)             *)
(*   branches  the branches of the main repository                         *)
(*   cont      the container labelled with each folder: "none", "running"  *)
(*             or "exited"                                                 *)
(*   env       the host environment                                        *)

ContStates == {"none", "running", "exited"}

EmptyWorld ==
    [dirs |-> {MainRoot, PlainRoot, <<"tmp">>, <<"dev">>},
     gitmark |-> [p \in Workspaces |-> IF p = MainRoot THEN "dir" ELSE "none"],
     dcdir |-> {},
     json |-> [p \in Workspaces |-> Absent],
     docker |-> [p \in Workspaces |-> Absent],
     hist |-> {},
     creds |-> {},
     emacs |-> {},
     copied |-> [p \in Workspaces |-> {}],
     committed |-> [json |-> Absent, docker |-> Absent],
     gitwt |-> {},
     branches |-> {"main"},
     cont |-> [p \in Folders |-> "none"],
     env |-> [wayland |-> FALSE, user |-> "dev", emacs |-> TRUE,
              runtime |-> "docker", picker |-> "fzf", gum |-> TRUE]]

RECURSIVE find_git_root(_, _)
\* walk the ancestors of start_path for a .git entry
find_git_root(w, start_path) ==
    IF start_path = <<>> THEN NoRoot
    ELSE IF start_path \in DOMAIN w.gitmark /\ w.gitmark[start_path] # "none"
         THEN start_path
    ELSE find_git_root(w, PathParent(start_path))

----------------------------------------------------------------------------
(* A running invocation: the world so far, the external calls issued so    *)
(* far, whether it is still running ("run") or how it ended, and the value *)
(* the last scaffold_devcontainer returned.                                *)

Begin(w) == [w |-> w, calls |-> <<>>, status |-> "run", created |-> "none"]

\* sys.exit(message): exit status 1
Fatal(st) == [st EXCEPT !.status = "fatal"]
\* an exception nothing catches: traceback, exit status 1
Crash(st) == [st EXCEPT !.status = "crash"]
\* the handler returns
Return(st) == [st EXCEPT !.status = "ok"]

Call(op, target, arg, rc) == [op |-> op, target |-> target, arg |-> arg, rc |-> rc]
Issue(st, c) == [st EXCEPT !.calls = Append(@, c)]
SetWorld(st, w) == [st EXCEPT !.w = w]

----------------------------------------------------------------------------
(* Devcontainer descriptor builder.                                        *)

\* a faulty variant: scaffold without the exists() check
scaffold_devcontainer_clobber(st, project_name, target_dir, config, port, env) ==
    LET w == st.w
        w2 == [w EXCEPT !.dcdir = @ \cup {target_dir},
                        !.dirs = @ \cup {target_dir},
                        !.json[target_dir] =
                            build_devcontainer_json(project_name, port, env),
                        !.docker[target_dir] = DockerfileContent(config, env)]
    IN [st EXCEPT !.w = w2, !.created = "created"]

scaffold_devcontainer(st, project_name, target_dir, config, port, env) ==
    LET w == st.w
    IN IF target_dir \in w.dcdir
       THEN [st EXCEPT !.created = "existed"]
       ELSE LET w2 == [w EXCEPT
                         !.dcdir = @ \cup {target_dir},
                         !.json[target_dir] =
                             build_devcontainer_json(project_name, port, env),
                         !.docker[target_dir] = DockerfileContent(config, env)]
            IN [st EXCEPT !.w = w2, !.created = "created"]

\* a faulty variant: a Dockerfile that is there is left as it is
sync_devcontainer_keep(st, project_name, target_dir, config, port, env) ==
    SetWorld(st, [st.w EXCEPT
        !.dcdir = @ \cup {target_dir},
        !.json[target_dir] = build_devcontainer_json(project_name, port, env),
        !.docker[target_dir] = IF @ = Absent THEN DockerfileContent(config, env)
                               ELSE @])

sync_devcontainer(st, project_name, target_dir, config, port, env) ==
    LET w == st.w
        w2 == [w EXCEPT
                 !.dcdir = @ \cup {target_dir},
                 !.json[target_dir] =
                     build_devcontainer_json(project_name, port, env),
                 !.docker[target_dir] = DockerfileContent(config, env)]
    IN SetWorld(st, w2)

\* os.path.expanduser
Expanduser(s) ==
    IF s = "~" THEN "/home/dev"
    ELSE IF Len(s) >= 2 /\ SubSeq(s, 1, 2) = "~/"
         THEN "/home/dev" \o SubSeq(s, 2, Len(s))
    ELSE s

\* a relative target is resolved under /workspaces/<project>
ResolveTarget(target, project_name) ==
    IF ~StartsWith(target, "/")
    THEN "/workspaces/" \o project_name \o "/" \o target
    ELSE target

\* parse_mount once arg.split(":") is taken and a trailing "ro" removed;
\* ok = FALSE: sys.exit("Error: Invalid mount syntax")
MountOfParts(parts, readonly, project_name) ==
    IF Len(parts) < 2
    THEN [ok |-> FALSE, source |-> "", target |-> "", readonly |-> readonly]
    ELSE [ok |-> TRUE, source |-> Expanduser(parts[1]),
          target |-> ResolveTarget(JoinWith(Tail(parts), ":"), project_name),
          readonly |-> readonly]

\* a faulty variant: readonly is noticed, the suffix stays in the target
StripReadonly_late(parts, project_name) ==
    MountOfParts(parts, Len(parts) >= 2 /\ Last(parts) = "ro", project_name)

StripReadonly(parts, project_name) ==
    IF Len(parts) >= 2 /\ Last(parts) = "ro"
    THEN MountOfParts(Front(parts), TRUE, project_name)
    ELSE MountOfParts(parts, FALSE, project_name)

parse_mount(arg, project_name) == StripReadonly(Split(arg, ":"), project_name)

\* the mount string add_user_mounts writes for one parsed mount
MountStr(mount) ==
    "source=" \o mount.source \o ",target=" \o mount.target \o ",type=bind"
        \o (IF mount.readonly THEN ",readonly" ELSE "")

\* a faulty variant: the new mounts are put in front of the ones found
add_user_mounts_prepend(st, ws, mounts) ==
    IF mounts = <<>> THEN st
    ELSE IF st.w.json[ws].kind # "json" THEN Crash(st)
    ELSE SetWorld(st, [st.w EXCEPT !.json[ws] =
            Dumps([@ EXCEPT !.mounts =
                [i \in 1..Len(mounts) |-> MountStr(mounts[i])] \o @])])

\* a faulty variant: the mounts array is rebuilt from the new mounts alone
add_user_mounts_replace(st, ws, mounts) ==
    IF mounts = <<>> \/ st.w.json[ws].kind # "json" THEN st
    ELSE SetWorld(st, [st.w EXCEPT !.json[ws] =
            Dumps([@ EXCEPT !.mounts = [i \in 1..Len(mounts) |-> MountStr(mounts[i])]])])

\* ws: the workspace whose .devcontainer/devcontainer.json is rewritten
add_user_mounts(st, ws, mounts) ==
    IF mounts = <<>> THEN st
    ELSE IF st.w.json[ws].kind # "json" THEN Crash(st)
    ELSE SetWorld(st, [st.w EXCEPT !.json[ws] =
            Dumps([@ EXCEPT !.mounts =
                @ \o [i \in 1..Len(mounts) |-> MountStr(mounts[i])]])])

add_worktree_git_mount(st, ws, main_git_dir) ==
    IF st.w.json[ws].kind # "json" THEN Crash(st)
    ELSE LET git_mount == "source=" \o PathStr(main_git_dir) \o ",target="
                            \o PathStr(main_git_dir) \o ",type=bind"
         IN SetWorld(st, [st.w EXCEPT !.json[ws] =
                Dumps([@ EXCEPT !.mounts = Append(@, git_mount)])])

\* [parse_mount(m, name) for m in args.mount], then add_user_mounts
ParseAndAddMounts(st, ws, mount_args, project_name) ==
    IF st.status # "run" \/ mount_args = <<>> THEN st
    ELSE IF \E i \in 1..Len(mount_args) :
                ~parse_mount(mount_args[i], project_name).ok
         THEN Fatal(st)
    ELSE add_user_mounts(st, ws,
            [i \in 1..Len(mount_args) |->
                parse_mount(mount_args[i], project_name)])

----------------------------------------------------------------------------
(* The parsed command line (parse_args) and the current directory.         *)

None == "<None>"

DefaultArgs ==
    [cwd |-> MainRoot,
     create |-> None, tree |-> None, spawn_given |-> FALSE, spawn |-> 0,
     list |-> FALSE, stop |-> FALSE, attach |-> FALSE, init |-> FALSE,
     sync |-> FALSE, prune |-> FALSE, destroy |-> FALSE, switch |-> FALSE,
     start |-> FALSE,
     prompt |-> None, agent |-> "claude", agent_given |-> FALSE,
     from_branch |-> None,
     prefix |-> None, all |-> FALSE, new |-> FALSE, detach |-> FALSE,
     shell |-> FALSE, run |-> None, mount |-> <<>>, copy |-> <<>>,
     lang |-> <<>>, yes |-> FALSE, path |-> NoRoot,
     tmux |-> FALSE, call |-> "main"]

\* agent_given: --agent stood on the command line (args.agent alone does
\* not tell: its default is "claude")

\* Python truth of an optional string argument
Given(v) == v # None /\ v # ""

----------------------------------------------------------------------------
(* Credential and configuration isolation, as one step of a handler.       *)
(* (SpecCache below takes setup_credential_cache apart file by file.)      *)

\* host files a --copy source may name
HostFiles == {"/home/dev/notes.txt"}

Basename(s) == Last(Split(s, "/"))

\* parse_copy once the first ":" of arg is found at k (0: none)
CopyOfParts(arg, k, project_name) ==
    IF k = 0
    THEN [source |-> Expanduser(arg),
          target |-> "/workspaces/" \o project_name \o "/"
                        \o Basename(Expanduser(arg))]
    ELSE [source |-> Expanduser(SubSeq(arg, 1, k - 1)),
          target |-> ResolveTarget(SubSeq(arg, k + 1, Len(arg)), project_name)]

parse_copy(arg, project_name) ==
    CopyOfParts(arg, FindChar(arg, ":", 1), project_name)

\* the file copy_user_files writes for one copy spec
RelativeTarget(parts, copy_spec) ==
    IF Len(parts) >= 2 /\ parts[1] = "" /\ parts[2] = "workspaces"
    THEN IF Len(parts) >= 4 THEN JoinWith(SubSeq(parts, 4, Len(parts)), "/")
         ELSE Basename(copy_spec.source)
    ELSE copy_spec.target

CopyTarget(copy_spec) == RelativeTarget(Split(copy_spec.target, "/"), copy_spec)

RECURSIVE copy_user_files(_, _, _)
copy_user_files(st, copies, workspace_dir) ==
    IF st.status # "run" \/ copies = <<>> THEN st
    ELSE IF Head(copies).source \notin HostFiles THEN Fatal(st)
    ELSE copy_user_files(
            SetWorld(st, [st.w EXCEPT !.copied[workspace_dir] =
                                @ \cup {CopyTarget(Head(copies))}]),
            Tail(copies), workspace_dir)

ParseAndCopyFiles(st, ws, copy_args, project_name) ==
    IF st.status # "run" \/ copy_args = <<>> THEN st
    ELSE copy_user_files(st,
            [i \in 1..Len(copy_args) |-> parse_copy(copy_args[i], project_name)],
            ws)

\* both cache directories are made with mkdir(parents=True) when missing
setup_credential_cache(st, workspace_dir) ==
    IF st.status # "run" THEN st
    ELSE SetWorld(st, [st.w EXCEPT !.dcdir = @ \cup {workspace_dir},
                                   !.creds = @ \cup {workspace_dir}])

setup_emacs_config(st, workspace_dir, env) ==
    IF st.status # "run" \/ ~env.emacs THEN st
    ELSE SetWorld(st, [st.w EXCEPT !.dcdir = @ \cup {workspace_dir},
                                   !.emacs = @ \cup {workspace_dir}])

----------------------------------------------------------------------------
(* Calls into the devcontainer CLI.                                        *)

is_container_running(w, workspace_dir) == w.cont[workspace_dir] = "running"

\* is_container_running as the call it issues: devcontainer exec ... true
Probe(st, workspace_dir) ==
    Issue(st, Call("probe", workspace_dir, "true",
                   IF is_container_running(st.w, workspace_dir) THEN 0 ELSE 1))

\* up_ok: whether the external devcontainer up exits 0
devcontainer_up(st, workspace_dir, remove_existing, up_ok) ==
    IF workspace_dir \notin st.w.dcdir THEN Crash(st)   \* histfile.touch
    ELSE LET w2 == [st.w EXCEPT
                      !.hist = @ \cup {workspace_dir},
                      !.cont[workspace_dir] = IF up_ok THEN "running" ELSE @]
         IN Issue(SetWorld(st, w2),
                  Call("up", workspace_dir,
                       IF remove_existing THEN "--remove-existing-container"
                       ELSE "",
                       IF up_ok THEN 0 ELSE 1))

TmuxShellCmd == "tmux attach-session -t dev || tmux new-session -s dev"

devcontainer_exec_tmux(st, workspace_dir) ==
    Issue(st, Call("exec_tmux", workspace_dir, TmuxShellCmd, 0))

devcontainer_exec_command(st, workspace_dir, command) ==
    Issue(st, Call("exec_cmd", workspace_dir, command, 0))

devcontainer_exec_prompt(st, workspace_dir, agent, prompt) ==
    LET agent_cmd == IF agent = "claude"
                     THEN "claude --dangerously-skip-permissions" ELSE agent
    IN Issue(st, Call("exec_prompt", workspace_dir,
                      "tmux new-session -d -s dev " \o agent_cmd \o " " \o prompt,
                      0))

\* a faulty variant: devcontainer up whatever the running check says
StartContainer_always(st, ws, new, up_ok) ==
    IF st.status # "run" THEN st
    ELSE LET u == devcontainer_up(Probe(st, ws), ws, new, up_ok)
         IN IF u.status = "run" /\ ~up_ok THEN Fatal(u) ELSE u

\* a faulty variant: a failed up is not fatal
StartContainer_lenient(st, ws, new, up_ok) ==
    IF st.status # "run" THEN st
    ELSE LET p == IF new THEN st ELSE Probe(st, ws)
         IN IF new \/ ~is_container_running(st.w, ws)
            THEN devcontainer_up(p, ws, new, up_ok)
            ELSE p

\* if args.new or not is_container_running(ws): devcontainer_up or sys.exit
StartContainer(st, ws, new, up_ok) ==
    IF st.status # "run" THEN st
    ELSE LET p == IF new THEN st ELSE Probe(st, ws)
         IN IF new \/ ~is_container_running(st.w, ws)
            THEN LET u == devcontainer_up(p, ws, new, up_ok)
                 IN IF u.status = "run" /\ ~up_ok THEN Fatal(u) ELSE u
            ELSE p

\* a faulty variant: the sub-modes of attach fall through instead of returning
AttachSubMode_fallthrough(st, ws, a) ==
    LET s1 == IF a.shell THEN devcontainer_exec_command(st, ws, "zsh") ELSE st
        s2 == IF Given(a.run) THEN devcontainer_exec_command(s1, ws, a.run)
              ELSE s1
    IN Return(devcontainer_exec_tmux(s2, ws))

\* the three sub-modes of attach: shell, run, or the persistent session
AttachSubMode(st, ws, a) ==
    IF a.shell THEN Return(devcontainer_exec_command(st, ws, "zsh"))
    ELSE IF Given(a.run) THEN Return(devcontainer_exec_command(st, ws, a.run))
    ELSE Return(devcontainer_exec_tmux(st, ws))

\* the tail shared by the start-capable handlers: prompt, detach, shell,
\* run, or the persistent session
AttachTail(st, ws, a) ==
    IF st.status # "run" THEN st
    ELSE IF Given(a.prompt)
         THEN Return(devcontainer_exec_prompt(st, ws, a.agent, a.prompt))
    ELSE IF a.detach THEN Return(st)
    ELSE IF a.shell THEN Return(devcontainer_exec_command(st, ws, "zsh"))
    ELSE IF Given(a.run) THEN Return(devcontainer_exec_command(st, ws, a.run))
    ELSE Return(devcontainer_exec_tmux(st, ws))

----------------------------------------------------------------------------
(* The handlers.  a: the arguments; x: the outcomes of the external        *)
(* processes it runs.                                                      *)

\* what input() gives at a confirmation prompt: a line, EOFError or
\* KeyboardInterrupt
EOF == "<EOFError>"
INT == "<KeyboardInterrupt>"
Answers == {"y", "Y", "n", "", "yes", EOF, INT}

\*   up_ok      devcontainer up exits 0
\*   git_ok     the git commands that can fail exit 0
\*   adj, noun  the words random.choice draws
\*   stop_fail  the containers whose stop exits non-zero
\*   rm_fail    the containers whose rm exits non-zero although stopped
\*   answers    what input() gives at the prompts, in order
\*   pick       how the picker of switch ends: a line, an exit, an interrupt
\*   langs      what the language picker of create gives
\*   draws      per spawned worktree, the random name the naming loop ends on
\*   up_fail    the spawned worktrees (by index) whose up exits non-zero
DefaultOutcome ==
    [up_ok |-> TRUE, git_ok |-> TRUE, adj |-> "brave", noun |-> "panda",
     stop_fail |-> {}, rm_fail |-> {}, answers |-> <<>>, pick |-> "1",
     langs |-> <<"python">>, draws |-> [i \in 1..MaxSpawn |-> "brave-panda"],
     up_fail |-> {}]

\* git branch bookkeeping: the worktree git registered at a path, if any
WtEntry(w, path) == {e \in w.gitwt : e.path = path}

branch_exists(w, branch) == branch \in w.branches

\* the content git checks out into a new worktree: the committed
\* .devcontainer, when the repository has one
Checkout(w, path) ==
    IF w.committed.json = Absent THEN w
    ELSE [w EXCEPT !.dcdir = @ \cup {path},
                   !.json[path] = w.committed.json,
                   !.docker[path] = w.committed.docker]

\* shutil.copytree(src_devcontainer, dst_devcontainer, symlinks=True)
CopyDevcontainer(w, src, dst) ==
    [w EXCEPT !.dcdir = @ \cup {dst},
              !.json[dst] = w.json[src],
              !.docker[dst] = w.docker[src],
              !.hist = IF src \in w.hist THEN @ \cup {dst} ELSE @,
              !.creds = IF src \in w.creds THEN @ \cup {dst} ELSE @,
              !.emacs = IF src \in w.emacs THEN @ \cup {dst} ELSE @]

\* a faulty variant: the .git mount is added for a worktree found in place
get_or_create_worktree_remount(st, git_root, worktree_name, worktree_path, config, from_branch, x) ==
    IF st.status # "run" THEN st
    ELSE add_worktree_git_mount(
            IF worktree_path \in st.w.dirs THEN st
            ELSE scaffold_devcontainer(
                    SetWorld(st, [st.w EXCEPT
                        !.dirs = @ \cup {PathParent(worktree_path), worktree_path},
                        !.gitmark[worktree_path] = "file",
                        !.gitwt = @ \cup {[path |-> worktree_path,
                                            branch |-> worktree_name]},
                        !.branches = @ \cup {worktree_name}]),
                    get_container_name(git_root, worktree_name),
                    worktree_path, config, 4000, st.w.env),
            worktree_path, Append(git_root, ".git"))

\* git worktree add -b NAME PATH [FROM] exits 0 when git works (x.git_ok)
\* and no branch NAME exists yet
get_or_create_worktree(st, git_root, worktree_name, worktree_path, config, from_branch, x) ==
    IF st.status # "run" THEN st
    ELSE IF worktree_path \in st.w.dirs THEN st
    ELSE
    LET added == x.git_ok /\ worktree_name \notin st.w.branches
        w1 == [st.w EXCEPT !.dirs = @ \cup {PathParent(worktree_path)}]
        s1 == Issue(SetWorld(st, w1),
                    Call("git_worktree_add", worktree_path,
                         IF Given(from_branch) THEN from_branch ELSE "",
                         IF added THEN 0 ELSE 1))
    IN IF ~added THEN Fatal(s1)
       ELSE
       LET w2 == Checkout(
                   [w1 EXCEPT !.dirs = @ \cup {worktree_path},
                              !.gitmark[worktree_path] = "file",
                              !.gitwt = @ \cup {[path |-> worktree_path,
                                                  branch |-> worktree_name]},
                              !.branches = @ \cup {worktree_name}],
                   worktree_path)
           s2 == SetWorld(s1, w2)
           s3 == IF worktree_path \in w2.dcdir THEN s2
                 ELSE IF git_root \in w2.dcdir
                      THEN SetWorld(s2, CopyDevcontainer(w2, git_root,
                                                         worktree_path))
                 ELSE scaffold_devcontainer(s2,
                        get_container_name(git_root, worktree_name),
                        worktree_path, config, 4000, st.w.env)
       IN add_worktree_git_mount(s3, worktree_path, Append(git_root, ".git"))

run_tree_mode(w, a, x) ==
    LET git_root == find_git_root(w, a.cwd)
        st0 == Begin(w)
    IN IF git_root = NoRoot THEN Fatal(st0)
       ELSE IF Given(a.from_branch) /\ ~branch_exists(w, a.from_branch)
            THEN Fatal(st0)
       ELSE
       LET worktree_name == IF Given(a.tree) THEN a.tree
                            ELSE generate_random_name(x.adj, x.noun)
           worktree_path == get_worktree_path(git_root, worktree_name)
           config == DEFAULT_CONFIG
           s1 == get_or_create_worktree(st0, git_root, worktree_name,
                                        worktree_path, config, a.from_branch, x)
           s2 == ParseAndAddMounts(s1, worktree_path, a.mount, worktree_name)
           s3 == ParseAndCopyFiles(s2, worktree_path, a.copy, worktree_name)
           s4 == setup_credential_cache(s3, worktree_path)
           s5 == setup_emacs_config(s4, worktree_path, w.env)
           s6 == StartContainer(s5, worktree_path, a.new, x.up_ok)
       IN AttachTail(s6, worktree_path, a)

run_default_mode(w, a, x) ==
    LET git_root == find_git_root(w, a.cwd)
        st0 == Begin(w)
    IN IF git_root = NoRoot THEN Fatal(st0)
       ELSE
       LET project_name == PathName(git_root)
           config == DEFAULT_CONFIG
           s1 == scaffold_devcontainer(st0, project_name, git_root, config,
                                       4000, w.env)
           s2 == ParseAndAddMounts(s1, git_root, a.mount, project_name)
           s3 == ParseAndCopyFiles(s2, git_root, a.copy, project_name)
           s4 == setup_credential_cache(s3, git_root)
           s5 == setup_emacs_config(s4, git_root, w.env)
           s6 == StartContainer(s5, git_root, a.new, x.up_ok)
       IN AttachTail(s6, git_root, a)

run_attach_mode(w, a, x) ==
    LET git_root == find_git_root(w, a.cwd)
        st0 == Begin(w)
    IN IF git_root = NoRoot THEN Fatal(st0)
       ELSE LET s1 == Probe(st0, git_root)
            IN IF ~is_container_running(w, git_root) THEN Fatal(s1)
               ELSE AttachSubMode(s1, git_root, a)




----------------------------------------------------------------------------
(* Listings.                                                               *)

get_container_runtime(w) == w.env.runtime

\* (folder, state) of every labelled container, in the engine's order
list_all_devcontainers(w) ==
    IF get_container_runtime(w) = None THEN <<>>
    ELSE SelectSeq([i \in DOMAIN FolderOrder |->
                        [folder |-> FolderOrder[i],
                         state |-> w.cont[FolderOrder[i]]]],
                   LAMBDA c : c.state # "none")

\* the repository a workspace belongs to: a worktree's .git file points
\* into the main repository
RepoOf(w, p) == IF w.gitmark[p] = "file" THEN MainRoot ELSE p

\* the worktrees git has registered, in the order it lists them
Registered(w, order) ==
    [i \in DOMAIN order |-> CHOOSE e \in w.gitwt : e.path = order[i]]

\* git worktree list --porcelain, parsed: the main root first; empty when
\* git exits non-zero
list_worktrees(w, git_root, git_ok) ==
    IF ~git_ok \/ git_root \notin DOMAIN w.gitmark
              \/ w.gitmark[git_root] = "none"
    THEN <<>>
    ELSE IF RepoOf(w, git_root) # MainRoot
    THEN <<[path |-> git_root, branch |-> "main"]>>
    ELSE <<[path |-> MainRoot, branch |-> "main"]>>
            \o Registered(w, SelectSeq(FolderOrder,
                    LAMBDA f : \E e \in w.gitwt : e.path = f))

\* workspaces.append((wt_path, branch or wt_path.name))
WorkspaceEntries(wts) ==
    [i \in DOMAIN wts |->
        [path |-> wts[i].path,
         type |-> IF wts[i].branch # "" THEN wts[i].branch
                  ELSE PathName(wts[i].path)]]

\* (path, type): type is "main", the worktree's branch, or its name
find_project_workspaces(w, git_root, git_ok) ==
    <<[path |-> git_root, type |-> "main"]>>
      \o (IF WorktreesDir(git_root) \in w.dirs
          THEN WorkspaceEntries(SelectSeq(list_worktrees(w, git_root, git_ok),
                                          LAMBDA e : e.path # git_root))
          ELSE <<>>)

\* the containers labelled with the root itself or with a folder whose
\* parent directory is named <project>-worktrees
find_containers_for_project(w, git_root) ==
    SelectSeq(list_all_devcontainers(w),
              LAMBDA c : \/ c.folder = git_root
                         \/ /\ Len(c.folder) >= 2
                            /\ PathName(PathParent(c.folder))
                                 = PathName(git_root) \o "-worktrees")

\* a faulty variant: the state of the container is not looked at
find_stopped_containers_for_project_all(w, git_root) ==
    find_containers_for_project(w, git_root)

find_stopped_containers_for_project(w, git_root) ==
    SelectSeq(find_containers_for_project(w, git_root),
              LAMBDA c : c.state # "running")

\* a faulty variant: the worktrees that are still there
find_stale_worktrees_present(w, git_root, git_ok) ==
    SelectSeq(list_worktrees(w, git_root, git_ok),
              LAMBDA e : e.path # git_root /\ e.path \in w.dirs)

find_stale_worktrees(w, git_root, git_ok) ==
    SelectSeq(list_worktrees(w, git_root, git_ok),
              LAMBDA e : e.path # git_root /\ e.path \notin w.dirs)


----------------------------------------------------------------------------
(* Container engine commands.                                              *)

\* <runtime> stop NAME, the container named by its folder
RuntimeStop(st, folder, x) ==
    LET ok == folder \notin x.stop_fail
        w2 == [st.w EXCEPT !.cont[folder] = IF ok THEN "exited" ELSE @]
    IN Issue(SetWorld(st, w2), Call("stop", folder, "", IF ok THEN 0 ELSE 1))

\* <runtime> rm NAME: the engine refuses to remove a running container
remove_container(st, folder, x) ==
    LET ok == folder \notin x.rm_fail /\ st.w.cont[folder] # "running"
        w2 == [st.w EXCEPT !.cont[folder] = IF ok THEN "none" ELSE @]
    IN Issue(SetWorld(st, w2), Call("rm", folder, "", IF ok THEN 0 ELSE 1))

RECURSIVE StopEach(_, _, _)
StopEach(st, folders, x) ==
    IF folders = <<>> THEN st
    ELSE StopEach(RuntimeStop(st, Head(folders), x), Tail(folders), x)

RECURSIVE RemoveEach(_, _, _)
RemoveEach(st, folders, x) ==
    IF folders = <<>> THEN st
    ELSE RemoveEach(remove_container(st, Head(folders), x), Tail(folders), x)

\* git worktree remove --force PATH
remove_worktree(st, git_root, worktree_path, x) ==
    LET w2 == [st.w EXCEPT !.gitwt = IF x.git_ok THEN @ \ WtEntry(st.w, worktree_path)
                                     ELSE @]
    IN Issue(SetWorld(st, w2),
             Call("git_worktree_remove", worktree_path, "--force",
                  IF x.git_ok THEN 0 ELSE 1))

RECURSIVE RemoveWorktrees(_, _, _, _)
RemoveWorktrees(st, git_root, paths, x) ==
    IF paths = <<>> THEN st
    ELSE RemoveWorktrees(remove_worktree(st, git_root, Head(paths), x),
                         git_root, Tail(paths), x)

FolderSeq(cs) == [i \in 1..Len(cs) |-> cs[i].folder]
PathSeq(es) == [i \in 1..Len(es) |-> es[i].path]

\* response = input(...): the n-th answer; EOF when the input has ended
Answer(x, n) == IF n <= Len(x.answers) THEN x.answers[n] ELSE EOF

\* the prompt as a call: op names the prompt, arg holds what was read
Ask(st, op, target, answer) == Issue(st, Call(op, target, answer, 0))

\* a faulty variant: any answer that is not a refusal is taken as consent
Consents_lax(answer) == answer \notin {"n", "N", ""}

\* try: response = input() except (EOFError, KeyboardInterrupt): return
\* if response.lower() != "y": return
Consents(answer) == answer \notin {EOF, INT} /\ Lower(answer) = "y"


----------------------------------------------------------------------------
(* stop, list, prune, switch.                                              *)

\* stop_container: False when no container is labelled with the workspace
stop_container(st, workspace_dir, x) ==
    IF get_container_runtime(st.w) = None \/ st.w.cont[workspace_dir] = "none"
    THEN [st |-> st, ok |-> FALSE]
    ELSE [st |-> RuntimeStop(st, workspace_dir, x),
          ok |-> workspace_dir \notin x.stop_fail]

RECURSIVE StopWorkspaces(_, _, _)
\* the loop of stop --all: skip missing directories, probe, stop if running
StopWorkspaces(st, paths, x) ==
    IF paths = <<>> THEN st
    ELSE LET p == Head(paths)
             s1 == IF p \notin st.w.dirs THEN st
                   ELSE IF is_container_running(st.w, p)
                        THEN stop_container(Probe(st, p), p, x).st
                   ELSE Probe(st, p)
         IN StopWorkspaces(s1, Tail(paths), x)

\* worktrees + main
WorktreesFirst(workspaces) ==
    SelectSeq(workspaces, LAMBDA t : t.type # "main")
      \o SelectSeq(workspaces, LAMBDA t : t.type = "main")

\* if not stop_container(git_root): sys.exit(1)
ReturnOrExit(r) == IF r.ok THEN Return(r.st) ELSE Fatal(r.st)

\* the one thing stop --all says when its loop has ended
NoneRunning == "No running containers found for this project"

\* if not any_stopped: print(...); any_stopped is set by a stop that
\* exited 0, and the loop's stops are the only ones the run has issued
ReportStopped(st, git_root) ==
    IF \E i \in 1..Len(st.calls) :
            st.calls[i].op = "stop" /\ st.calls[i].rc = 0
    THEN st
    ELSE Issue(st, Call("print", git_root, NoneRunning, 0))

run_stop_mode(w, a, x) ==
    LET git_root == find_git_root(w, a.cwd)
        st0 == Begin(w)
    IN IF git_root = NoRoot THEN Fatal(st0)
       ELSE IF a.all
       THEN Return(ReportStopped(StopWorkspaces(st0,
                PathSeq(WorktreesFirst(
                    find_project_workspaces(w, git_root, x.git_ok))), x),
                git_root))
       ELSE ReturnOrExit(stop_container(st0, git_root, x))

RECURSIVE ProbeEach(_, _)
ProbeEach(st, paths) ==
    IF paths = <<>> THEN st
    ELSE ProbeEach(IF Head(paths) \in st.w.dcdir THEN Probe(st, Head(paths))
                   ELSE st,
                   Tail(paths))

\* list prints; what it runs are the running checks
run_list_mode(w, a, x) ==
    LET git_root == find_git_root(w, a.cwd)
        st0 == Begin(w)
    IN IF a.all \/ git_root = NoRoot
       THEN IF get_container_runtime(w) = None THEN Fatal(st0) ELSE Return(st0)
       ELSE Return(ProbeEach(st0,
                PathSeq(find_project_workspaces(w, git_root, x.git_ok))))

\* a faulty variant: the prompt is shown although nothing was found
PruneTail_asks(st0, git_root, stopped, orphans, stale, x) ==
    IF ~Consents(Answer(x, 1))
    THEN Return(Ask(st0, "ask_prune", git_root, Answer(x, 1)))
    ELSE Return(RemoveWorktrees(
            RemoveEach(StopEach(Ask(st0, "ask_prune", git_root, Answer(x, 1)),
                                FolderSeq(orphans), x),
                       FolderSeq(stopped \o orphans), x),
            git_root, PathSeq(stale), x))

\* a faulty variant: the stopped containers are removed before the
\* orphans are stopped
PruneTail_rmfirst(st0, git_root, stopped, orphans, stale, x) ==
    IF stopped = <<>> /\ orphans = <<>> /\ stale = <<>> THEN Return(st0)
    ELSE IF ~Consents(Answer(x, 1))
    THEN Return(Ask(st0, "ask_prune", git_root, Answer(x, 1)))
    ELSE Return(RemoveWorktrees(
            RemoveEach(StopEach(RemoveEach(
                                    Ask(st0, "ask_prune", git_root, Answer(x, 1)),
                                    FolderSeq(stopped), x),
                                FolderSeq(orphans), x),
                       FolderSeq(orphans), x),
            git_root, PathSeq(stale), x))

\* the tail shared by both prune handlers: one prompt, then stop the
\* orphans, remove stopped and orphans, remove the stale worktrees
PruneTail(st0, git_root, stopped, orphans, stale, x) ==
    IF stopped = <<>> /\ orphans = <<>> /\ stale = <<>> THEN Return(st0)
    ELSE LET response == Answer(x, 1)
             s1 == Ask(st0, "ask_prune", git_root, response)
         IN IF ~Consents(response) THEN Return(s1)
            ELSE LET s2 == StopEach(s1, FolderSeq(orphans), x)
                     s3 == RemoveEach(s2, FolderSeq(stopped \o orphans), x)
                 IN Return(RemoveWorktrees(s3, git_root, PathSeq(stale), x))

\* a faulty variant: every running container counts as an orphan
Orphans_running(w, containers) ==
    SelectSeq(containers, LAMBDA c : c.state = "running")

\* the running containers whose workspace directory is gone
Orphans(w, containers) ==
    SelectSeq(containers,
              LAMBDA c : c.state = "running" /\ c.folder \notin w.dirs)

run_prune_global_mode(w, a, x) ==
    IF get_container_runtime(w) = None THEN Fatal(Begin(w))
    ELSE PruneTail(Begin(w), NoRoot,
                   SelectSeq(list_all_devcontainers(w),
                             LAMBDA c : c.state # "running"),
                   Orphans(w, list_all_devcontainers(w)), <<>>, x)

run_prune_mode(w, a, x) ==
    LET git_root == find_git_root(w, a.cwd)
        st0 == Begin(w)
    IN IF a.all \/ git_root = NoRoot THEN run_prune_global_mode(w, a, x)
       ELSE IF get_container_runtime(w) = None THEN Fatal(st0)
       ELSE PruneTail(st0, git_root,
                      find_stopped_containers_for_project(w, git_root),
                      Orphans(w, find_containers_for_project(w, git_root)),
                      find_stale_worktrees(w, git_root, x.git_ok), x)

\* fzf or gum left with a non-zero exit status (Esc, ctrl-c)
NonZero == "<nonzero>"

Digits == <<"0", "1", "2", "3", "4", "5", "6", "7", "8", "9">>
\* str.isdigit() on the strings the model reads
IsDigit(s) ==
    /\ s # ""
    /\ \A i \in 1..Len(s) : \E d \in 1..10 : SubSeq(s, i, i) = Digits[d]
RECURSIVE ToInt(_)
\* int(s) of a string of digits
ToInt(s) ==
    IF s = "" THEN 0
    ELSE 10 * ToInt(SubSeq(s, 1, Len(s) - 1))
           + (CHOOSE d \in 1..10 : SubSeq(s, Len(s), Len(s)) = Digits[d]) - 1
RECURSIVE Strip(_)
\* str.strip() of blanks
Strip(s) ==
    IF s = "" THEN s
    ELSE IF SubSeq(s, 1, 1) = " " THEN Strip(SubSeq(s, 2, Len(s)))
    ELSE IF SubSeq(s, Len(s), Len(s)) = " " THEN Strip(SubSeq(s, 1, Len(s) - 1))
    ELSE s

\* the numbered prompt once input("> ") has given pick
ReadPick(st, running, pick) ==
    IF ~IsDigit(Strip(pick)) THEN Fatal(st)
    ELSE IF ToInt(Strip(pick)) - 1 \notin 0..(Len(running) - 1) THEN Fatal(st)
    ELSE Return(devcontainer_exec_tmux(st, running[ToInt(Strip(pick))].folder))

\* a faulty variant: an interrupt at the numbered prompt is read as a line
NumberedPick_strict(st0, running, pick) ==
    IF pick = EOF THEN Return(Ask(st0, "ask_pick", NoRoot, pick))
    ELSE ReadPick(Ask(st0, "ask_pick", NoRoot, pick), running, pick)

\* the numbered prompt: pick is what input("> ") gives
NumberedPick(st0, running, pick) ==
    IF pick \in {INT, EOF} THEN Return(Ask(st0, "ask_pick", NoRoot, pick))
    ELSE ReadPick(Ask(st0, "ask_pick", NoRoot, pick), running, pick)

\* fzf and gum: pick is NonZero, INT (KeyboardInterrupt while the picker
\* runs) or the number of the line the picker printed with status 0; the
\* folder is the last word of that line
ToolPick(st0, running, pick) ==
    IF pick \in {NonZero, INT}
    THEN Return(Issue(st0, Call(st0.w.env.picker, NoRoot, pick, 1)))
    ELSE Return(devcontainer_exec_tmux(
                    Issue(st0, Call(st0.w.env.picker, NoRoot, pick, 0)),
                    running[ToInt(pick)].folder))

\* x.pick: how the picker ends.  fzf when it is installed, else gum, else
\* the numbered prompt
PickAndAttach(st0, running, x) ==
    IF running = <<>> THEN Fatal(st0)
    ELSE IF Len(running) = 1
         THEN Return(devcontainer_exec_tmux(st0, running[1].folder))
    ELSE IF st0.w.env.picker \in {"fzf", "gum"}
         THEN ToolPick(st0, running, x.pick)
    ELSE NumberedPick(st0, running, x.pick)

run_switch_mode(w, a, x) ==
    PickAndAttach(Begin(w),
                  SelectSeq(list_all_devcontainers(w),
                      LAMBDA c : c.state = "running" /\ c.folder \in w.dirs),
                  x)


----------------------------------------------------------------------------
(* destroy.                                                                *)

IsPrefix(p, q) == Len(p) <= Len(q) /\ SubSeq(q, 1, Len(p)) = p

\* shutil.rmtree(d): the directory and everything below it
rmtree(w, d) ==
    LET repo == IsPrefix(d, MainRoot)
    IN [w EXCEPT
          !.dirs = {p \in @ : ~IsPrefix(d, p)},
          !.gitmark = [p \in DOMAIN @ |-> IF IsPrefix(d, p) THEN "none" ELSE @[p]],
          !.dcdir = {p \in @ : ~IsPrefix(d, p)},
          !.json = [p \in DOMAIN @ |-> IF IsPrefix(d, p) THEN Absent ELSE @[p]],
          !.docker = [p \in DOMAIN @ |-> IF IsPrefix(d, p) THEN Absent ELSE @[p]],
          !.hist = {p \in @ : ~IsPrefix(d, p)},
          !.creds = {p \in @ : ~IsPrefix(d, p)},
          !.emacs = {p \in @ : ~IsPrefix(d, p)},
          !.copied = [p \in DOMAIN @ |-> IF IsPrefix(d, p) THEN {} ELSE @[p]],
          !.committed = IF repo THEN [json |-> Absent, docker |-> Absent] ELSE @,
          !.gitwt = IF repo THEN {} ELSE @,
          !.branches = IF repo THEN {} ELSE @]

RECURSIVE RmtreeEach(_, _)
RmtreeEach(st, ds) ==
    IF ds = <<>> THEN st
    ELSE RmtreeEach(Issue(SetWorld(st, rmtree(st.w, Head(ds))),
                          Call("rmtree", Head(ds), "", 0)),
                    Tail(ds))

\* the branch the main repository lists for the worktree; "" when its HEAD
\* is detached or it is not listed
BranchOf(wts, git_root) ==
    IF \E i \in 1..Len(wts) : wts[i].path = git_root
    THEN (CHOOSE e \in Range(wts) : e.path = git_root).branch
    ELSE ""

\* a faulty variant: the branch prompt is shown even with --yes
DestroyBranch_asks(st, a, x, main_repo, worktree_branch) ==
    IF main_repo = NoRoot \/ worktree_branch = "" THEN Return(st)
    ELSE Return(Ask(st, "ask_branch", main_repo, Answer(x, 3)))

\* the last part of destroy: git worktree prune in the main repository,
\* then the branch, on consent
DestroyBranch(st, a, x, main_repo, worktree_branch) ==
    IF main_repo = NoRoot \/ main_repo \notin st.w.dirs THEN Return(st)
    ELSE
    LET w1 == [st.w EXCEPT !.gitwt = {e \in @ : e.path \in st.w.dirs}]
        s1 == Issue(SetWorld(st, w1), Call("git_worktree_prune", main_repo, "", 0))
    IN IF worktree_branch = "" THEN Return(s1)
       ELSE
       LET response == Answer(x, 3)
           s2 == IF a.yes THEN s1 ELSE Ask(s1, "ask_branch", main_repo, response)
           delete_branch == a.yes \/ Consents(response)
           ok == x.git_ok /\ worktree_branch \in s2.w.branches
       IN IF ~delete_branch THEN Return(s2)
          ELSE Return(Issue(
                 SetWorld(s2, [s2.w EXCEPT !.branches =
                                IF ok THEN @ \ {worktree_branch} ELSE @]),
                 Call("git_branch_D", main_repo, worktree_branch,
                      IF ok THEN 0 ELSE 1)))

\* a faulty variant: the directories go whatever the answer is
DestroyDirs_always(st, a, x, git_root) ==
    Return(RmtreeEach(Ask(st, "ask_dirs", git_root, Answer(x, 2)), <<git_root>>))

\* the part of destroy after the containers are removed: the directories
DestroyDirs(st, a, x, git_root) ==
    LET worktrees_dir == WorktreesDir(git_root)
        dirs_to_remove == <<git_root>> \o (IF worktrees_dir \in st.w.dirs
                                           THEN <<worktrees_dir>> ELSE <<>>)
        response == Answer(x, 2)
        s1 == IF a.yes THEN st ELSE Ask(st, "ask_dirs", git_root, response)
    IN IF ~a.yes /\ ~Consents(response) THEN Return(s1)
       ELSE
       LET is_worktree == st.w.gitmark[git_root] = "file"
           main_repo == IF is_worktree THEN RepoOf(st.w, git_root) ELSE NoRoot
       IN IF is_worktree /\ main_repo \notin st.w.dirs THEN Crash(s1)
          ELSE
          LET wts == IF is_worktree
                     THEN list_worktrees(st.w, main_repo, x.git_ok) ELSE <<>>
              worktree_branch == BranchOf(wts, git_root)
              s2 == IF is_worktree
                    THEN Issue(s1, Call("git_worktree_list", main_repo, "",
                                        IF x.git_ok THEN 0 ELSE 1))
                    ELSE s1
              s3 == RmtreeEach(s2, dirs_to_remove)
          IN DestroyBranch(s3, a, x, main_repo, worktree_branch)

\* a faulty variant: no check for an empty list of containers
DestroyContainers_noempty(st, a, x, git_root, containers) ==
    LET response == Answer(x, 1)
        s1 == IF a.yes THEN st
              ELSE Ask(st, "ask_containers", git_root, response)
    IN IF ~a.yes /\ ~Consents(response) THEN Return(s1)
       ELSE DestroyDirs(RemoveEach(s1, FolderSeq(containers), x), a, x, git_root)

\* destroy once the containers of the project are found
DestroyContainers(st, a, x, git_root, containers) ==
    IF containers = <<>> THEN Return(st)
    ELSE
    LET response == Answer(x, 1)
        s1 == IF a.yes THEN st
              ELSE Ask(st, "ask_containers", git_root, response)
    IN IF ~a.yes /\ ~Consents(response) THEN Return(s1)
       ELSE
       LET running == SelectSeq(containers, LAMBDA c : c.state = "running")
           s2 == StopEach(s1, FolderSeq(running), x)
           s3 == RemoveEach(s2, FolderSeq(containers), x)
       IN DestroyDirs(s3, a, x, git_root)

\* the path destroy is pointed at: PATH, else the current directory
TargetOf(a) == IF a.path # NoRoot THEN a.path ELSE a.cwd

run_destroy_mode(w, a, x) ==
    LET st0 == Begin(w)
        git_root == find_git_root(w, TargetOf(a))
    IN IF a.path # NoRoot /\ a.path \notin w.dirs THEN Fatal(st0)
       ELSE IF git_root = NoRoot THEN Fatal(st0)
       ELSE IF get_container_runtime(w) = None THEN Fatal(st0)
       ELSE DestroyContainers(st0, a, x, git_root,
                              find_containers_for_project(w, git_root))

----------------------------------------------------------------------------
(* create and init.                                                        *)

get_project_init_commands(language, project_name) ==
    IF language = "python" THEN <<<<"mkdir", "-p", "tests">>>>
    ELSE IF language = "typescript" THEN <<<<"bun", "init">>>>
    ELSE IF language = "go" THEN <<<<"go", "mod", "init", project_name>>>>
    ELSE IF language = "rust"
         THEN <<<<"cargo", "init", "--name", project_name>>>>
    ELSE IF language = "shell" THEN <<<<"mkdir", "-p", "src">>>>
    ELSE IF language = "prose" THEN <<<<"mkdir", "-p", "docs">>>>
    ELSE <<<<"mkdir", "-p", "src">>>>

RECURSIVE ExecEach(_, _, _)
ExecEach(st, ws, cmds) ==
    IF st.status # "run" \/ cmds = <<>> THEN st
    ELSE ExecEach(devcontainer_exec_command(st, ws, JoinWith(Head(cmds), " ")),
                  ws, Tail(cmds))

\* git init in the project directory, then scaffold, git add, git commit
GitInitAndScaffold(st, project_name, project_path, config, x) ==
    LET s1 == Issue(st, Call("git_init", project_path, "",
                             IF x.git_ok THEN 0 ELSE 1))
    IN IF ~x.git_ok THEN Fatal(s1)
       ELSE scaffold_devcontainer(
              SetWorld(s1, [s1.w EXCEPT !.gitmark[project_path] = "dir"]),
              project_name, project_path, config, 4000, st.w.env)

\* if not devcontainer_up(project_path, remove_existing=True): sys.exit
UpFresh(st, ws, up_ok) ==
    IF st.status # "run" THEN st
    ELSE LET u == devcontainer_up(st, ws, TRUE, up_ok)
         IN IF u.status = "run" /\ ~up_ok THEN Fatal(u) ELSE u

\* the steps create and init share from the mounts to the start
PrepareAndUp(st, project_name, project_path, a, x) ==
    LET s2 == ParseAndAddMounts(st, project_path, a.mount, project_name)
        s3 == ParseAndCopyFiles(s2, project_path, a.copy, project_name)
        s4 == setup_credential_cache(s3, project_path)
        s5 == setup_emacs_config(s4, project_path, st.w.env)
    IN UpFresh(s5, project_path, x.up_ok)

run_create_mode(w, a, x) ==
    LET st0 == Begin(w)
        project_name == a.create
        project_path == Append(a.cwd, project_name)
        languages == IF a.lang # <<>> THEN a.lang ELSE x.langs
    IN IF find_git_root(w, a.cwd) # NoRoot THEN Fatal(st0)
       ELSE IF project_path \in w.dirs THEN Fatal(st0)
       ELSE IF languages = <<>> THEN Fatal(st0)
       ELSE
       LET primary_language == languages[1]
           s1 == SetWorld(st0, [w EXCEPT !.dirs = @ \cup {project_path}])
           s2 == GitInitAndScaffold(s1, project_name, project_path,
                                    DEFAULT_CONFIG, x)
           s3 == IF s2.status # "run" THEN s2
                 ELSE PrepareAndUp(s2, project_name, project_path, a, x)
           s4 == ExecEach(s3, project_path,
                    get_project_init_commands(primary_language, project_name))
       IN AttachTail(s4, project_path, a)

run_init_mode(w, a, x) ==
    LET st0 == Begin(w)
        project_path == a.cwd
        project_name == PathName(project_path)
    IN IF find_git_root(w, a.cwd) # NoRoot THEN Fatal(st0)
       ELSE
       LET s2 == GitInitAndScaffold(st0, project_name, project_path,
                                    DEFAULT_CONFIG, x)
           s3 == IF s2.status # "run" THEN s2
                 ELSE PrepareAndUp(s2, project_name, project_path, a, x)
       IN AttachTail(s3, project_path, a)


----------------------------------------------------------------------------
(* spawn.                                                                  *)

get_agent_command(config, agent_name, index) ==
    LET name == IF agent_name # None /\ agent_name # "" THEN agent_name
                ELSE config.agents[(index % Len(config.agents)) + 1]
    IN IF name \in DOMAIN config.agent_commands
       THEN config.agent_commands[name] ELSE name

RECURSIVE SpawnNames(_, _, _, _)
\* the naming loop: IDX-PREFIX, or IDX-<random>, the random part falling
\* back to spawn-IDX when no unused one was drawn
SpawnNames(a, x, idx, used) ==
    IF idx > a.spawn THEN <<>>
    ELSE IF Given(a.prefix)
         THEN <<SpawnName(idx, a.prefix)>> \o SpawnNames(a, x, idx + 1, used)
    ELSE LET random_part == IF x.draws[idx] \notin used THEN x.draws[idx]
                            ELSE FallbackPart(idx)
         IN <<SpawnName(idx, random_part)>>
              \o SpawnNames(a, x, idx + 1, used \cup {random_part})

\* every worktree of the batch is given the base port
SetPort_base(st, ws, port) ==
    IF st.status # "run" \/ st.w.json[ws] = Absent THEN st
    ELSE IF st.w.json[ws].kind # "json" THEN Crash(st)
    ELSE SetWorld(st, [st.w EXCEPT !.json[ws] =
                        Dumps([@ EXCEPT !.port = ToString(4000)])])

\* content["containerEnv"]["PORT"] = str(port), when the file exists
SetPort(st, ws, port) ==
    IF st.status # "run" \/ st.w.json[ws] = Absent THEN st
    ELSE IF st.w.json[ws].kind # "json" THEN Crash(st)
    ELSE SetWorld(st, [st.w EXCEPT !.json[ws] =
                        Dumps([@ EXCEPT !.port = ToString(port)])])

\* histfile.touch(exist_ok=True)
TouchHistfile(st, ws) ==
    IF st.status # "run" THEN st
    ELSE IF ws \notin st.w.dcdir THEN Crash(st)
    ELSE SetWorld(st, [st.w EXCEPT !.hist = @ \cup {ws}])

RECURSIVE SpawnPrepare(_, _, _, _, _, _)
\* the preparation loop, one worktree after the other
SpawnPrepare(st, git_root, names, i, a, x) ==
    IF st.status # "run" \/ i > Len(names) THEN st
    ELSE LET name == names[i]
             worktree_path == get_worktree_path(git_root, name)
             port == DEFAULT_CONFIG.base_port + (i - 1)
             s1 == get_or_create_worktree(st, git_root, name, worktree_path, DEFAULT_CONFIG, a.from_branch, x)
             s2 == SetPort(s1, worktree_path, port)
             s3 == ParseAndAddMounts(s2, worktree_path, a.mount, name)
             s4 == ParseAndCopyFiles(s3, worktree_path, a.copy, name)
             s5 == setup_credential_cache(s4, worktree_path)
             s6 == setup_emacs_config(s5, worktree_path, st.w.env)
             s7 == TouchHistfile(s6, worktree_path)
         IN SpawnPrepare(s7, git_root, names, i + 1, a, x)

RECURSIVE LaunchEach(_, _, _)
\* subprocess.Popen(devcontainer up ...) for every worktree, none awaited
LaunchEach(st, paths, new) ==
    IF paths = <<>> THEN st
    ELSE LaunchEach(Issue(st, Call("popen_up", Head(paths),
                            IF new THEN "--remove-existing-container" ELSE "",
                            0)),
                    Tail(paths), new)

RECURSIVE JoinEach(_, _, _, _)
\* proc.communicate() in launch order
JoinEach(st, paths, i, x) ==
    IF i > Len(paths) THEN st
    ELSE LET ok == i \notin x.up_fail
             w2 == [st.w EXCEPT !.cont[paths[i]] = IF ok THEN "running" ELSE @]
         IN JoinEach(Issue(SetWorld(st, w2),
                           Call("join", paths[i], "", IF ok THEN 0 ELSE 1)),
                     paths, i + 1, x)

\* tmux send-keys -t spawn:NAME "devcontainer exec --workspace-folder
\* PATH sh -c '<agent> <prompt>'" Enter: the target is the folder the
\* command runs in, the argument the window and what is run there
SendKeys(path, name, agent_cmd, prompt) ==
    Call("tmux_send_keys", path,
         "spawn:" \o name \o " " \o agent_cmd \o " " \o prompt, 0)

RECURSIVE TmuxWindows(_, _, _, _, _, _)
\* one window per path, named by the name at the same position
TmuxWindows(st, paths, names, i, prompt, agent_override) ==
    IF i > Len(paths) THEN st
    ELSE TmuxWindows(
            Issue(Issue(st, Call(IF i = 1 THEN "tmux_new_session"
                                 ELSE "tmux_new_window", NoRoot, names[i], 0)),
                  SendKeys(paths[i], names[i],
                           get_agent_command(DEFAULT_CONFIG, agent_override, i - 1),
                           prompt)),
            paths, names, i + 1, prompt, agent_override)

spawn_tmux_multipane(st, worktree_paths, worktree_names, prompt, agent_override) ==
    IF worktree_paths = <<>> THEN Return(st)
    ELSE Return(Issue(
            TmuxWindows(Issue(st, Call("tmux_kill_session", NoRoot, "spawn", 0)),
                        worktree_paths, worktree_names, 1, prompt, agent_override),
            Call("tmux_attach", NoRoot, "spawn", 0)))

\* if failed: print(f"Warning: {len(failed)} container(s) failed ...")
WarnFailed(st, failed) ==
    IF failed = <<>> THEN st
    ELSE Issue(st, Call("warn_failed", NoRoot, JoinWith(failed, ", "), 0))

\* a faulty variant: the names are filtered, the paths are not
SpawnAgents_allpaths(st, worktree_paths, worktree_names, failed, a) ==
    IF ~Given(a.prompt) THEN Return(WarnFailed(st, failed))
    ELSE spawn_tmux_multipane(
            WarnFailed(st, failed),
            SubSeq(worktree_paths, 1,
                   Len(SelectSeq(worktree_names,
                        LAMBDA n : \A i \in DOMAIN failed : n # failed[i]))),
            SelectSeq(worktree_names,
                LAMBDA n : \A i \in DOMAIN failed : n # failed[i]),
            a.prompt,
            IF a.agent # "claude" THEN a.agent ELSE None)

\* spawn after the last join: the warning, then the report alone without
\* a prompt, else the windows for the paths and for the names that are
\* not in failed
SpawnAgents(st, worktree_paths, worktree_names, failed, a) ==
    IF ~Given(a.prompt) THEN Return(WarnFailed(st, failed))
    ELSE spawn_tmux_multipane(
            WarnFailed(st, failed),
            SelectSeq(worktree_paths,
                LAMBDA p : \A i \in DOMAIN failed : PathName(p) # failed[i]),
            SelectSeq(worktree_names,
                LAMBDA n : \A i \in DOMAIN failed : n # failed[i]),
            a.prompt,
            IF a.agent # "claude" THEN a.agent ELSE None)

\* spawn once every worktree is prepared: start all containers at once,
\* wait for each, then open the windows for those that came up
SpawnLaunch(s1, worktree_names, worktree_paths, a, x) ==
    IF s1.status # "run" THEN s1
    ELSE SpawnAgents(
            JoinEach(LaunchEach(s1, worktree_paths, a.new), worktree_paths, 1, x),
            worktree_paths, worktree_names,
            SelectSeq(worktree_names,
                LAMBDA n : \E i \in x.up_fail \cap 1..a.spawn :
                             worktree_names[i] = n),
            a)

SpawnPaths(git_root, worktree_names) ==
    [i \in DOMAIN worktree_names |->
        get_worktree_path(git_root, worktree_names[i])]

run_spawn_mode(w, a, x) ==
    LET git_root == find_git_root(w, a.cwd)
    IN IF git_root = NoRoot THEN Fatal(Begin(w))
       ELSE IF a.spawn < 1 THEN Fatal(Begin(w))
       ELSE SpawnLaunch(
                SpawnPrepare(Begin(w), git_root, SpawnNames(a, x, 1, {}), 1, a, x),
                SpawnNames(a, x, 1, {}),
                SpawnPaths(git_root, SpawnNames(a, x, 1, {})),
                a, x)

----------------------------------------------------------------------------
(* sync and the dispatcher.                                                *)

run_sync_mode(w, a, x) ==
    LET st0 == Begin(w)
        git_root == find_git_root(w, a.cwd)
    IN IF git_root = NoRoot THEN Fatal(st0)
       ELSE Return(sync_devcontainer(st0, PathName(git_root), git_root,
                                     DEFAULT_CONFIG, 4000, w.env))

\* args._parser.print_help(); return
print_help(w) == Return(Issue(Begin(w), Call("print_help", NoRoot, "", 0)))

\* the handler main hands the arguments to, "help" when they name none
\* (--sync --new goes on to the start handlers; no invocation below
\* combines the two)
Dispatch(a) ==
    IF a.sync THEN "sync"
    ELSE IF a.list THEN "list"
    ELSE IF a.stop THEN "stop"
    ELSE IF a.prune THEN "prune"
    ELSE IF a.destroy THEN "destroy"
    ELSE IF a.switch THEN "switch"
    ELSE IF a.attach THEN "attach"
    ELSE IF a.spawn_given /\ a.spawn # 0 THEN "spawn"
    ELSE IF a.init THEN "init"
    ELSE IF Given(a.create) THEN "create"
    ELSE IF a.tree # None THEN "tree"
    ELSE IF a.start THEN "start"
    ELSE "help"

\* a faulty variant: the guard is consulted for start and attach alone
check_tmux_guard_some(a) ==
    /\ Dispatch(a) \in {"attach", "start"}
    /\ ~a.detach /\ ~Given(a.prompt) /\ ~a.shell /\ ~Given(a.run)
    /\ a.tmux

\* if not args.detach and not args.prompt and not args.shell and not
\* args.run: check_tmux_guard(), which ends the process inside tmux
check_tmux_guard(a) ==
    /\ Dispatch(a) \in {"switch", "attach", "spawn", "init", "create", "tree",
                        "start"}
    /\ ~a.detach /\ ~Given(a.prompt) /\ ~a.shell /\ ~Given(a.run)
    /\ a.tmux


----------------------------------------------------------------------------
(* The program as a state machine: every action is one invocation of the   *)
(* command line, run to its end.  world is the file system, git and the    *)
(* container engine as the invocation left them; inv, calls, status and    *)
(* created describe the last invocation: its arguments, the external calls *)
(* it issued in order, how it ended, and what its scaffold step returned.  *)

\* a Dockerfile the user wrote
UserDockerfile == [kind |-> "user"]

MaxWorktrees == 1
\* stray entries per cache directory
MaxStray == 1

MountArgs == {<<>>, <<"~/data:foo:ro">>, <<"nocolon">>}
\* the mounts of a descriptor that --mount put there: of all the mounts
\* the tool writes only these have a source under the user's home
UserMountCount(c) ==
    IF c.kind # "json" THEN 0
    ELSE Cardinality({i \in 1..Len(c.mounts) :
            /\ Len(c.mounts[i]) >= 17
            /\ SubSeq(c.mounts[i], 1, 17) = "source=/home/dev/"})

\* the bound on the worlds explored: user mounts per descriptor, and
\* worktrees (the directories three components deep)
WithinBounds(w) ==
    /\ \A p \in DOMAIN w.json : UserMountCount(w.json[p]) <= MaxMounts
    /\ Cardinality({p \in w.dirs : Len(p) = 3}) <= MaxWorktrees

Invoke(a, res) ==
    /\ WithinBounds(res.w)
    /\ world' = res.w
    /\ inv' = a
    /\ calls' = res.calls
    /\ status' = res.status
    /\ created' = res.created
    /\ UNCHANGED <<stale_worktrees, batch_names, parsed_mounts, cfg, procs, cache, pc, todo, inode0>>

\* one invocation of the command line: res is the run of handler h, the
\* one main dispatches the arguments to
main(a, h, res) ==
    /\ Dispatch(a) = h
    /\ Invoke(a, IF check_tmux_guard(a) THEN Fatal(Begin(world)) ELSE res)

\* the directories a command is run from
Cwds(w) == {p \in {MainRoot, get_worktree_path(MainRoot, "1-feat")} :
                p \in w.dirs}

\* a repository without .devcontainer, one with a hand-written descriptor,
\* and one whose descriptor is not JSON
InitWorlds ==
    {EmptyWorld}
    \cup {[EmptyWorld EXCEPT !.dcdir = {MainRoot},
                             !.json[MainRoot] = j,
                             !.docker[MainRoot] = UserDockerfile] :
            j \in {UserDescriptor, Malformed}}

\* a direct call of scaffold_devcontainer on a directory
Scaffold ==
    \E ws \in {MainRoot, PlainRoot} :
        Invoke([DefaultArgs EXCEPT !.call = "scaffold_devcontainer", !.cwd = ws],
               Return(scaffold_devcontainer(Begin(world), PathName(ws), ws,
                                            DEFAULT_CONFIG, 4000, world.env)))

Start ==
    \E cwd \in Cwds(world), m \in MountArgs :
        LET a == [DefaultArgs EXCEPT !.cwd = cwd, !.start = TRUE,
                                     !.detach = TRUE, !.mount = m]
        IN main(a, "start", run_default_mode(world, a, DefaultOutcome))

Tree ==
    \E name \in {""}, m \in MountArgs :
        LET a == [DefaultArgs EXCEPT !.tree = name, !.detach = TRUE, !.mount = m]
        IN main(a, "tree", run_tree_mode(world, a, DefaultOutcome))

Spawn ==
    \E n \in 1..MaxSpawn, m \in MountArgs :
        LET a == [DefaultArgs EXCEPT !.spawn_given = TRUE, !.spawn = n,
                                     !.prefix = SpawnPrefix, !.detach = TRUE,
                                     !.mount = m]
        IN main(a, "spawn", run_spawn_mode(world, a, DefaultOutcome))

Attach ==
    \E cwd \in {MainRoot} :
        LET a == [DefaultArgs EXCEPT !.cwd = cwd, !.attach = TRUE]
        IN main(a, "attach", run_attach_mode(world, a, DefaultOutcome))

Stop ==
    \E cwd \in {MainRoot}, all \in BOOLEAN :
        LET a == [DefaultArgs EXCEPT !.cwd = cwd, !.stop = TRUE, !.all = all]
        IN main(a, "stop", run_stop_mode(world, a, DefaultOutcome))

List ==
    LET a == [DefaultArgs EXCEPT !.list = TRUE]
    IN main(a, "list", run_list_mode(world, a, DefaultOutcome))

Prune ==
    \E ans \in {"y", "n"} :
        LET a == [DefaultArgs EXCEPT !.prune = TRUE]
        IN main(a, "prune", run_prune_mode(world, a, [DefaultOutcome EXCEPT !.answers = <<ans>>]))

Switch ==
    LET a == [DefaultArgs EXCEPT !.switch = TRUE]
    IN main(a, "switch", run_switch_mode(world, a, DefaultOutcome))

Sync ==
    LET a == [DefaultArgs EXCEPT !.sync = TRUE]
    IN main(a, "sync", run_sync_mode(world, a, DefaultOutcome))

\* destroy --yes PATH, of a worktree
Destroy ==
    \E p \in WtPaths \cap world.dirs :
        LET a == [DefaultArgs EXCEPT !.destroy = TRUE, !.yes = TRUE, !.path = p]
        IN main(a, "destroy", run_destroy_mode(world, a, DefaultOutcome))

Init ==
    /\ world \in InitWorlds
    /\ inv = DefaultArgs
    /\ calls = <<>>
    /\ status = "ok"
    /\ created = "none"
    /\ cache = <<>>
    /\ pc = "idle"
    /\ todo = <<>>
    /\ inode0 = <<>>
    /\ procs = <<>>
    /\ parsed_mounts = <<>>
    /\ batch_names = <<>>
    /\ stale_worktrees = NotAsked
    /\ cfg = <<>>

Next ==
    \/ Scaffold \/ Start \/ Tree \/ Spawn \/ Attach \/ Stop \/ List
    \/ Prune \/ Switch \/ Sync \/ Destroy

Spec == Init /\ [][Next]_vars


----------------------------------------------------------------------------
(* The last invocation, read from inv and calls.                           *)

\* which handler main dispatched the last invocation to
Mode(a) == IF a.call # "main" THEN a.call ELSE Dispatch(a)

Idx(ops) == {i \in 1..Len(calls) : calls[i].op \in ops}
ExecOps == {"exec_cmd", "exec_prompt", "exec_tmux"}
\* the running check said "running" / "not running"
ProbedUp == \E i \in Idx({"probe"}) : calls[i].rc = 0
ProbedDown == \E i \in Idx({"probe"}) : calls[i].rc # 0
ExitStatus == IF status = "ok" THEN 0 ELSE 1

----------------------------------------------------------------------------
(* C1, C2: the descriptor is written once.                                 *)

\* C1: scaffold_devcontainer on a workspace whose .devcontainer exists
\* returns False and writes nothing at all; it returns True and writes
\* devcontainer.json and the Dockerfile only when the directory was absent;
\* so a second call in a row reports "existed" and leaves the descriptor as
\* the first call produced it.
C1_ScaffoldOnce ==
    [][inv'.call = "scaffold_devcontainer" =>
        LET ws == inv'.cwd
        IN /\ IF ws \in world.dcdir
              THEN created' = "existed" /\ world' = world
              ELSE /\ created' = "created"
                   /\ world'.json[ws] =
                        build_devcontainer_json(PathName(ws), 4000, world.env)
                   /\ world'.docker[ws] =
                        DockerfileContent(DEFAULT_CONFIG, world.env)
           /\ (inv.call = "scaffold_devcontainer" /\ inv.cwd = ws)
                => (created' = "existed" /\ world'.json[ws] = world.json[ws])
    ]_vars

\* the case of the test: a directory holding a file that is not JSON
C1_Witness ==
    /\ inv.call = "scaffold_devcontainer"
    /\ created = "existed"
    /\ world.json[inv.cwd] = Malformed
    /\ world.docker[inv.cwd] = UserDockerfile

ListedModes ==
    {"start", "tree", "spawn", "attach", "stop", "list", "prune", "switch"}

\* what may differ after an invocation that is not sync: mounts appended,
\* containerEnv.PORT set, the text laid out again by json.dumps
OnlyExtended(old, new) ==
    IF old.kind # "json" THEN new = old
    ELSE /\ new.kind = "json"
         /\ IsPrefix(old.mounts, new.mounts)
         /\ [new EXCEPT !.mounts = old.mounts, !.port = old.port,
                        !.fmt = old.fmt] = old

\* C2: no invocation of start, tree, spawn, attach, stop, list, prune or
\* switch replaces a devcontainer.json that exists: the file stays, every
\* mount entry it held stays in place and in order, and nothing but appended
\* mounts and the PORT key differs.
C2_DescriptorNeverClobbered ==
    [][Mode(inv') \in ListedModes =>
        \A ws \in Workspaces :
            world.json[ws] # Absent =>
                OnlyExtended(world.json[ws], world'.json[ws])]_vars

\* start --mount on a repository with a hand-written descriptor
C2_Witness ==
    /\ Mode(inv) = "start" /\ inv.mount # <<>> /\ status = "ok"
    /\ world.json[MainRoot].kind = "json"
    /\ world.json[MainRoot].custom
    /\ world.json[MainRoot].mounts =
         <<"existing", MountStr(parse_mount(inv.mount[1], "MyApp"))>>


----------------------------------------------------------------------------
(* SpecCalls: the commands that start a container or attach to one, with   *)
(* every flag that selects what they run, on a small world.                *)

\* combinations of --prompt, --detach, --shell and --run
SubModes ==
    {[prompt |-> p, detach |-> d, shell |-> s, run |-> r] :
        p \in {None, "fix it"}, d \in BOOLEAN, s \in BOOLEAN, r \in {None, "ls"}}
UsedSubModes ==
    {m \in SubModes :
        \/ Cardinality({k \in {"p", "d", "s", "r"} :
                \/ k = "p" /\ m.prompt # None
                \/ k = "d" /\ m.detach
                \/ k = "s" /\ m.shell
                \/ k = "r" /\ m.run # None}) <= 1
        \/ m = [prompt |-> None, detach |-> FALSE, shell |-> TRUE, run |-> "ls"]}

WithSubMode(a, m) ==
    [a EXCEPT !.prompt = m.prompt, !.detach = m.detach, !.shell = m.shell,
              !.run = m.run]

\* the repository, scaffolded, its container in any state
InitCallWorlds ==
    {[EmptyWorld EXCEPT
        !.dcdir = {MainRoot},
        !.json[MainRoot] = build_devcontainer_json("MyApp", 4000, EmptyWorld.env),
        !.docker[MainRoot] = DockerfileContent(DEFAULT_CONFIG, EmptyWorld.env),
        !.cont[MainRoot] = c] : c \in ContStates}

StartCall ==
    \E m \in UsedSubModes, new \in BOOLEAN, up \in BOOLEAN :
        LET a == WithSubMode([DefaultArgs EXCEPT !.start = TRUE, !.new = new], m)
        IN main(a, "start", run_default_mode(world, a, [DefaultOutcome EXCEPT !.up_ok = up]))

TreeCall ==
    \E m \in UsedSubModes, new \in BOOLEAN, up \in BOOLEAN :
        LET a == WithSubMode([DefaultArgs EXCEPT !.tree = "", !.new = new], m)
        IN main(a, "tree", run_tree_mode(world, a, [DefaultOutcome EXCEPT !.up_ok = up]))

CreateCall ==
    \E m \in UsedSubModes, up \in BOOLEAN :
        LET a == WithSubMode([DefaultArgs EXCEPT !.cwd = <<"tmp">>,
                                !.create = "proj"], m)
        IN main(a, "create", run_create_mode(world, a, [DefaultOutcome EXCEPT !.up_ok = up,
                                                           !.langs = <<"go">>]))

InitCall ==
    \E m \in UsedSubModes, up \in BOOLEAN :
        LET a == WithSubMode([DefaultArgs EXCEPT !.cwd = PlainRoot,
                                                 !.init = TRUE], m)
        IN main(a, "init", run_init_mode(world, a, [DefaultOutcome EXCEPT !.up_ok = up]))

AttachCall ==
    \E s \in BOOLEAN, r \in {None, "ls"}, tmux \in BOOLEAN :
        LET a == [DefaultArgs EXCEPT !.attach = TRUE, !.shell = s, !.run = r,
                                     !.tmux = tmux]
        IN main(a, "attach", run_attach_mode(world, a, DefaultOutcome))

\* stop, so that a started container can be found not running again
StopCall ==
    LET a == [DefaultArgs EXCEPT !.stop = TRUE]
    IN main(a, "stop", run_stop_mode(world, a, DefaultOutcome))

InitCalls ==
    /\ world \in InitCallWorlds
    /\ inv = DefaultArgs
    /\ calls = <<>>
    /\ status = "ok"
    /\ created = "none"
    /\ cache = <<>>
    /\ pc = "idle"
    /\ todo = <<>>
    /\ inode0 = <<>>
    /\ procs = <<>>
    /\ parsed_mounts = <<>>
    /\ batch_names = <<>>
    /\ stale_worktrees = NotAsked
    /\ cfg = <<>>

NextCalls ==
    \/ StartCall \/ TreeCall \/ CreateCall \/ InitCall \/ AttachCall \/ StopCall

SpecCalls == InitCalls /\ [][NextCalls]_vars


----------------------------------------------------------------------------
(* C3, C4, C5: what start, tree, create, init and attach run.              *)

\* C3: in start and tree modes devcontainer up is invoked only when
\* force-new is set or the running check failed, and it is invoked whenever
\* that is so and the invocation gets as far as starting; the call carries
\* --remove-existing-container exactly when force-new is set.  A start
\* without force-new on a running container issues no up.
C3_UpOnlyWhenNeeded ==
    Mode(inv) \in {"start", "tree"} =>
        /\ Cardinality(Idx({"up"})) <= 1
        /\ \A i \in Idx({"up"}) :
            /\ inv.new \/ \E j \in 1..(i - 1) :
                            /\ calls[j].op = "probe"
                            /\ calls[j].target = calls[i].target
                            /\ calls[j].rc # 0
            /\ (calls[i].arg = "--remove-existing-container") <=> inv.new
        /\ (status = "ok" /\ (inv.new \/ ProbedDown)) => Idx({"up"}) # {}
        /\ (~inv.new /\ ProbedUp) => Idx({"up"}) = {}

\* the idempotent start: the container runs, no force-new, nothing started
C3_Witness ==
    /\ Mode(inv) = "start" /\ ~inv.new /\ status = "ok"
    /\ ProbedUp
    /\ Idx({"up"}) = {}
    /\ Idx({"exec_tmux"}) # {}

\* C4: in start, tree, create and init modes, when devcontainer up exits
\* non-zero the process ends with a non-zero status and nothing is run in
\* the container afterwards: no exec, no agent prompt, no attach.
C4_FailedUpIsFatal ==
    Mode(inv) \in {"start", "tree", "create", "init"} =>
        \A i \in Idx({"up"}) :
            calls[i].rc # 0 =>
                /\ ExitStatus # 0
                /\ \A j \in Idx(ExecOps) : j < i

\* create whose devcontainer up failed
C4_Witness ==
    /\ Mode(inv) = "create" /\ status = "fatal"
    /\ Idx({"up"}) # {}
    /\ Last(calls).op = "up" /\ Last(calls).rc # 0
    /\ ProjRoot \in world.dirs

\* C5: attach runs something in the container only after the running check
\* of the repository root succeeded; when the check fails it ends fatally
\* and runs nothing; when it succeeds it runs exactly one thing: zsh with
\* --shell, else the --run command, else the attach-or-create of the tmux
\* session dev.
C5_AttachOnlyWhenRunning ==
    Mode(inv) = "attach" =>
        /\ \A i \in Idx(ExecOps) : \E j \in 1..(i - 1) :
                /\ calls[j].op = "probe" /\ calls[j].rc = 0
                /\ calls[j].target = find_git_root(world, inv.cwd)
                /\ calls[i].target = calls[j].target
        /\ ProbedDown => (status = "fatal" /\ Idx(ExecOps) = {})
        /\ ProbedUp =>
            /\ status = "ok"
            /\ Cardinality(Idx(ExecOps)) = 1
            /\ Last(calls) =
                 IF inv.shell
                 THEN Call("exec_cmd", find_git_root(world, inv.cwd), "zsh", 0)
                 ELSE IF Given(inv.run)
                 THEN Call("exec_cmd", find_git_root(world, inv.cwd), inv.run, 0)
                 ELSE Call("exec_tmux", find_git_root(world, inv.cwd),
                           TmuxShellCmd, 0)

\* attach --shell --run ls on a running container: the shell alone
C5_Witness ==
    /\ Mode(inv) = "attach" /\ inv.shell /\ Given(inv.run) /\ status = "ok"
    /\ Len(calls) = 2
    /\ calls[1].op = "probe" /\ calls[1].rc = 0
    /\ calls[2].op = "exec_cmd" /\ calls[2].arg = "zsh"


----------------------------------------------------------------------------
(* SpecCache: setup_credential_cache of one workspace, file operation by   *)
(* file operation.                                                         *)
(*   cache   the two cache directories under .devcontainer, each with the  *)
(*           inode it has (0: it does not exist) and its entries; whether  *)
(*           .devcontainer/.claude.json exists; the host files that exist; *)
(*           the next unused inode                                         *)
(*   pc      where the refresh stands                                      *)
(*   todo    the entries the running loop has still to visit               *)
(*   inode0  the inodes of the two directories when the refresh began      *)

CacheDirs == {"claude", "gemini"}
File(name) == [name |-> name, kind |-> "file"]
Dir(name) == [name |-> name, kind |-> "dir"]
\* a symbolic link to a directory: is_dir() holds, rmtree refuses it
DirLink(name) == [name |-> name, kind |-> "dirlink"]

ClaudeFiles == <<".credentials.json", "settings.json">>
GeminiFiles == <<"settings.json", "google_accounts.json", "oauth_creds.json">>
\* what the host may hold: files of ~/.claude, ~/.claude/statsig,
\* ~/.claude.json, files of ~/.gemini
HostSets ==
    {{},
     {<<"claude", ".credentials.json">>, <<"claude", "statsig">>,
      <<"home", ".claude.json">>, <<"gemini", "oauth_creds.json">>},
     {<<"claude", ".credentials.json">>, <<"claude", "settings.json">>,
      <<"gemini", "settings.json">>, <<"gemini", "google_accounts.json">>}}
\* what a container may leave in a cache directory it has mounted
StrayEntries == {File("history.jsonl"), Dir("projects"), DirLink("shared")}

NoDir == [inode |-> 0, entries |-> {}]
InitCachesOf ==
    {[claude |-> c, gemini |-> g, claude_json |-> FALSE, host |-> {}, next |-> 3] :
        c \in {NoDir, [inode |-> 1, entries |-> {File(".credentials.json"),
                                                 Dir("statsig")}]},
        g \in {NoDir, [inode |-> 2, entries |-> {File("oauth_creds.json")}]}}

\* a faulty variant: the directory is removed and made again
RemoveEntry_rmtree(c, d, item) ==
    [c EXCEPT ![d] = [inode |-> c.next, entries |-> {}], !.next = @ + 1]

\* one round of the loop of clear_directory_contents: rmtree or unlink
RemoveEntry(c, d, item) == [c EXCEPT ![d].entries = @ \ {item}]

\* shutil.copy2 / shutil.copytree into the directory
AddEntry(c, d, e) ==
    [c EXCEPT ![d].entries = {x \in @ : x.name # e.name} \cup {e}]

\* cache_dir.mkdir(parents=True)
MakeDir(c, d) ==
    [c EXCEPT ![d] = [inode |-> c.next, entries |-> {}], !.next = @ + 1]

\* path.iterdir(): the entries in any order
Orders(S) ==
    {q \in [1..Cardinality(S) -> S] : \A e \in S : \E i \in DOMAIN q : q[i] = e}

CacheStep(p, c, t) ==
    /\ pc' = p
    /\ cache' = c
    /\ todo' = t
    /\ UNCHANGED <<stale_worktrees, batch_names, parsed_mounts, cfg, procs, world, inv, calls, status, created, inode0>>

\* the refresh starts; the host files are what they are at that moment
CacheBegin ==
    /\ pc = "idle"
    /\ \E h \in HostSets : cache' = [cache EXCEPT !.host = h]
    /\ pc' = "claude_dir"
    /\ todo' = <<>>
    /\ inode0' = [d \in CacheDirs |-> cache[d].inode]
    /\ inv' = [DefaultArgs EXCEPT !.call = "setup_credential_cache"]
    /\ status' = "run"
    /\ UNCHANGED <<stale_worktrees, batch_names, parsed_mounts, cfg, procs, world, calls, created>>

\* if cache.exists(): clear_directory_contents(cache) else: cache.mkdir
CacheDir ==
    \E d \in CacheDirs :
        /\ pc = d \o "_dir"
        /\ IF cache[d].inode # 0
           THEN \E q \in Orders(cache[d].entries) :
                    CacheStep(d \o "_clear", cache, q)
           ELSE CacheStep(d \o "_copy", MakeDir(cache, d),
                          IF d = "claude" THEN ClaudeFiles ELSE GeminiFiles)

CacheClear ==
    \E d \in CacheDirs :
        /\ pc = d \o "_clear"
        /\ IF todo = <<>>
           THEN CacheStep(d \o "_copy", cache,
                          IF d = "claude" THEN ClaudeFiles ELSE GeminiFiles)
           ELSE IF Head(todo).kind = "dirlink"
           THEN /\ pc' = "idle"
                /\ status' = "crash"
                /\ todo' = <<>>
                /\ UNCHANGED <<stale_worktrees, batch_names, parsed_mounts, cfg, procs, world, inv, calls, created, cache, inode0>>
           ELSE CacheStep(pc, RemoveEntry(cache, d, Head(todo)), Tail(todo))

\* for filename in [...]: if src.exists(): shutil.copy2(src, cache / filename)
CacheCopy ==
    \E d \in CacheDirs :
        /\ pc = d \o "_copy"
        /\ IF todo = <<>>
           THEN IF d = "claude" THEN CacheStep("statsig_rm", cache, <<>>)
                ELSE /\ pc' = "idle"
                     /\ status' = "ok"
                     /\ world' = setup_credential_cache(Begin(world), MainRoot).w
                     /\ UNCHANGED <<stale_worktrees, batch_names, parsed_mounts, cfg, procs, inv, calls, created, cache, todo, inode0>>
           ELSE CacheStep(pc,
                    IF <<d, Head(todo)>> \in cache.host
                    THEN AddEntry(cache, d, File(Head(todo))) ELSE cache,
                    Tail(todo))

\* if statsig_src.exists(): rmtree(statsig_dst) if it exists, then copytree
CacheStatsig ==
    \/ /\ pc = "statsig_rm"
       /\ CacheStep("statsig_copy",
            IF /\ <<"claude", "statsig">> \in cache.host
               /\ \E e \in cache.claude.entries : e.name = "statsig"
            THEN [cache EXCEPT !.claude.entries =
                        {e \in @ : e.name # "statsig"}]
            ELSE cache,
            <<>>)
    \/ /\ pc = "statsig_copy"
       /\ CacheStep("claude_json",
            IF <<"claude", "statsig">> \in cache.host
            THEN AddEntry(cache, "claude", Dir("statsig")) ELSE cache,
            <<>>)

\* if claude_json_src.exists(): shutil.copy2 to .devcontainer/.claude.json
CacheClaudeJson ==
    /\ pc = "claude_json"
    /\ CacheStep("gemini_dir",
         [cache EXCEPT !.claude_json =
                @ \/ <<"home", ".claude.json">> \in cache.host],
         <<>>)

\* between refreshes a container writes into a cache directory it mounts
ContainerWrites ==
    /\ pc = "idle"
    /\ \E d \in CacheDirs, e \in StrayEntries :
        /\ cache[d].inode # 0
        /\ e \notin cache[d].entries
        /\ Cardinality(cache[d].entries \cap StrayEntries) < MaxStray
        /\ cache' = AddEntry(cache, d, e)
    /\ UNCHANGED <<stale_worktrees, batch_names, parsed_mounts, cfg, procs, world, inv, calls, status, created, pc, todo, inode0>>

InitCache ==
    /\ world = [EmptyWorld EXCEPT !.dcdir = {MainRoot}]
    /\ inv = DefaultArgs
    /\ calls = <<>>
    /\ status = "ok"
    /\ created = "none"
    /\ cache \in InitCachesOf
    /\ pc = "idle"
    /\ todo = <<>>
    /\ inode0 = [d \in CacheDirs |-> 0]
    /\ procs = <<>>
    /\ parsed_mounts = <<>>
    /\ batch_names = <<>>
    /\ stale_worktrees = NotAsked
    /\ cfg = <<>>

NextCache ==
    \/ CacheBegin \/ CacheDir \/ CacheClear \/ CacheCopy \/ CacheStatsig
    \/ CacheClaudeJson \/ ContainerWrites

SpecCache == InitCache /\ [][NextCache]_vars

\* C6: while a credential cache refresh runs on a workspace whose cache
\* directory existed when it began, the directory is there at every step
\* with the inode it had: it is never removed or made again, only its
\* entries go and come.
C6_CacheDirKeepsIdentity ==
    \A d \in CacheDirs :
        (pc # "idle" /\ inode0[d] # 0) => cache[d].inode = inode0[d]

\* in the middle of a refresh: the existing directory has been emptied and
\* nothing is copied back yet
C6_Witness ==
    /\ pc = "claude_copy" /\ todo = ClaudeFiles
    /\ inode0["claude"] = 1
    /\ cache.claude = [inode |-> 1, entries |-> {}]


----------------------------------------------------------------------------
(* SpecDestroy: destroy and prune at their prompts.                        *)

Wt1 == get_worktree_path(MainRoot, "1-feat")

\* the repository, scaffolded and started before: alone; with a worktree on
\* branch 1-feat; with a worktree whose HEAD is detached; with a worktree
\* whose directory was deleted by hand
Scaffolded(w, p, name) ==
    [w EXCEPT !.dcdir = @ \cup {p},
              !.json[p] = build_devcontainer_json(name, 4000, w.env),
              !.docker[p] = DockerfileContent(DEFAULT_CONFIG, w.env),
              !.hist = @ \cup {p}, !.creds = @ \cup {p}, !.emacs = @ \cup {p}]
WithWorktree(w, branch, present) ==
    LET w1 == [w EXCEPT !.dirs = @ \cup {WorktreesDir(MainRoot)}
                                   \cup (IF present THEN {Wt1} ELSE {}),
                        !.gitwt = {[path |-> Wt1, branch |-> branch]},
                        !.branches = @ \cup {"1-feat"},
                        !.gitmark[Wt1] = IF present THEN "file" ELSE "none"]
    IN IF present THEN Scaffolded(w1, Wt1, "MyApp-1-feat") ELSE w1
Layouts ==
    LET base == Scaffolded(EmptyWorld, MainRoot, "MyApp")
    IN {base, WithWorktree(base, "1-feat", TRUE), WithWorktree(base, "", TRUE),
        WithWorktree(base, "1-feat", FALSE)}
InitDestroyWorlds ==
    {[w EXCEPT !.cont[MainRoot] = cm, !.cont[Wt1] = cw] :
        w \in Layouts, cm \in ContStates, cw \in {"none", "running"}}

\* what is typed at the prompts: each prompt sees each answer
AnswerSeqs ==
    {<<r>> : r \in Answers} \cup {<<"y", r>> : r \in Answers}
        \cup {<<"Y", "y", r>> : r \in Answers}

DestroyCmd ==
    \E p \in {NoRoot, Wt1}, yes \in BOOLEAN, ans \in AnswerSeqs, sf \in {{}, {Wt1}}, git \in BOOLEAN :
        /\ yes => (ans = <<"n">>)
        /\ ~git => (sf = {} /\ (yes \/ Len(ans) = 3))
        /\ LET a == [DefaultArgs EXCEPT !.destroy = TRUE, !.yes = yes, !.path = p]
           IN main(a, "destroy", run_destroy_mode(world, a, [DefaultOutcome EXCEPT
                            !.answers = ans, !.stop_fail = sf, !.git_ok = git]))

PruneCmd ==
    \E all \in BOOLEAN, r \in Answers, sf \in {{}, {Wt1}} :
        LET a == [DefaultArgs EXCEPT !.prune = TRUE, !.all = all]
        IN main(a, "prune", run_prune_mode(world, a, [DefaultOutcome EXCEPT
                            !.answers = <<r>>, !.stop_fail = sf]))

InitDestroy ==
    /\ world \in InitDestroyWorlds
    /\ inv = DefaultArgs
    /\ calls = <<>>
    /\ status = "ok"
    /\ created = "none"
    /\ cache = <<>>
    /\ pc = "idle"
    /\ todo = <<>>
    /\ inode0 = <<>>
    /\ procs = <<>>
    /\ parsed_mounts = <<>>
    /\ batch_names = <<>>
    /\ stale_worktrees = NotAsked
    /\ cfg = <<>>

NextDestroy == DestroyCmd \/ PruneCmd

SpecDestroy == InitDestroy /\ [][NextDestroy]_vars


----------------------------------------------------------------------------
(* C7 .. C10: the prompts of destroy and prune.                            *)

AskOps == {"ask_containers", "ask_dirs", "ask_branch", "ask_prune"}
\* what the prompts stand in front of
GuardedOps ==
    {"stop", "rm", "rmtree", "git_worktree_remove", "git_branch_D"}
Declined(c) == c.op \in AskOps /\ ~(c.arg \in {"y", "Y"})

\* C7: at every prompt of destroy and prune, an interrupt, an end of input
\* or any answer but y / Y is a decline: the command does not crash (it
\* returns), and no container is stopped or removed, no directory deleted,
\* no worktree removed and no branch deleted after it; declined at the
\* first prompt, the command changes nothing at all.
C7_DeclineIsNoAction ==
    [][Mode(inv') \in {"destroy", "prune"} =>
        \A i \in 1..Len(calls') :
            Declined(calls'[i]) =>
                /\ status' = "ok"
                /\ \A j \in (i + 1)..Len(calls') : calls'[j].op \notin GuardedOps
                /\ (i = 1) => (world' = world)]_vars

\* destroy interrupted at its first prompt: the containers still run
C7_Witness ==
    /\ Mode(inv) = "destroy" /\ status = "ok"
    /\ Len(calls) = 1
    /\ calls[1].op = "ask_containers" /\ calls[1].arg = INT
    /\ world.cont[MainRoot] = "running"

\* C8: in destroy, when the directory prompt is declined no directory and
\* no branch is deleted, the containers removed before stay removed, and
\* the command returns normally.
C8_DeclineDirsKeepsDirs ==
    [][(Mode(inv') = "destroy"
        /\ \E i \in 1..Len(calls') :
              calls'[i].op = "ask_dirs" /\ Declined(calls'[i])) =>
            /\ status' = "ok"
            /\ world'.dirs = world.dirs
            /\ world'.branches = world.branches
            /\ world'.gitwt = world.gitwt
            /\ \A j \in 1..Len(calls') :
                /\ calls'[j].op \notin {"rmtree", "git_branch_D"}
                /\ (calls'[j].op = "rm" /\ calls'[j].rc = 0)
                      => world'.cont[calls'[j].target] = "none"]_vars

\* containers confirmed and removed, directories declined
C8_Witness ==
    /\ Mode(inv) = "destroy" /\ status = "ok"
    /\ \E i \in 1..Len(calls) : calls[i].op = "rm" /\ calls[i].rc = 0
    /\ Last(calls).op = "ask_dirs" /\ Last(calls).arg = "n"
    /\ world.cont[MainRoot] = "none"
    /\ MainRoot \in world.dirs

\* the root destroy works on, and the containers it finds there
DestroyRoot(w, a) ==
    IF a.path # NoRoot /\ a.path \notin w.dirs THEN NoRoot
    ELSE find_git_root(w, TargetOf(a))
\* the branch git lists for a worktree root, "" when there is none
RegisteredBranch(w, root) ==
    IF w.gitmark[root] = "file" /\ WtEntry(w, root) # {}
    THEN (CHOOSE e \in WtEntry(w, root) : TRUE).branch ELSE ""

C10_NothingFound ==
    [][(/\ Mode(inv') = "destroy"
        /\ DestroyRoot(world, inv') # NoRoot
        /\ \A f \in Folders :
             (\/ f = DestroyRoot(world, inv')
              \/ PathName(PathParent(f))
                   = PathName(DestroyRoot(world, inv')) \o "-worktrees")
                => world.cont[f] = "none") =>
            (calls' = <<>> /\ status' = "ok" /\ world' = world)]_vars

\* destroy without --yes in a repository that has no container
C10_Witness ==
    /\ Mode(inv) = "destroy" /\ ~inv.yes /\ inv.path = NoRoot /\ status = "ok"
    /\ calls = <<>>
    /\ \A f \in Folders : world.cont[f] = "none"
    /\ MainRoot \in world.dirs


----------------------------------------------------------------------------
(* C11: prune with nothing to prune.                                       *)

\* the root prune works from; NoRoot: every devcontainer of the host
PruneScope(w, a) == IF a.all THEN NoRoot ELSE find_git_root(w, a.cwd)
InPruneScope(f, root) ==
    \/ root = NoRoot
    \/ f = root
    \/ Len(f) >= 2 /\ PathName(PathParent(f)) = PathName(root) \o "-worktrees"
\* no stopped container, no running container whose directory is gone
\* and, from a repository, no registered worktree whose directory is gone
NothingToPrune(w, a) ==
    /\ \A f \in Folders :
          InPruneScope(f, PruneScope(w, a)) =>
             \/ w.cont[f] = "none"
             \/ w.cont[f] = "running" /\ f \in w.dirs
    /\ PruneScope(w, a) # NoRoot => \A e \in w.gitwt : e.path \in w.dirs

\* C11: prune, from a repository and over the whole host, that finds no
\* stopped container, no orphaned running container and (from a repository)
\* no stale worktree returns without reading a confirmation and without
\* stopping or removing anything.
C11_NothingToPrune ==
    [][(Mode(inv') = "prune" /\ NothingToPrune(world, inv')) =>
            (calls' = <<>> /\ status' = "ok" /\ world' = world)]_vars

\* prune in a repository whose only container runs in an existing directory
C11_Witness ==
    /\ Mode(inv) = "prune" /\ ~inv.all /\ status = "ok" /\ calls = <<>>
    /\ NothingToPrune(world, inv)
    /\ world.cont[MainRoot] = "running"
    /\ Wt1 \in world.dirs


----------------------------------------------------------------------------
(* SpecStop: stop and stop --all of a project whose container engine may   *)
(* refuse to stop a container.                                             *)

StopCmd ==
    \E all \in BOOLEAN, sf \in SUBSET {MainRoot, Wt1} :
        LET a == [DefaultArgs EXCEPT !.stop = TRUE, !.all = all]
        IN main(a, "stop", run_stop_mode(world, a,
                            [DefaultOutcome EXCEPT !.stop_fail = sf]))

\* start again, so that a stopped container can be found running
StartCmd ==
    \E p \in {MainRoot, Wt1} :
        /\ p \in world.dirs
        /\ LET a == [DefaultArgs EXCEPT !.cwd = p, !.start = TRUE, !.detach = TRUE]
           IN main(a, "start", run_default_mode(world, a, DefaultOutcome))

NextStop == StopCmd \/ StartCmd

SpecStop == InitDestroy /\ [][NextStop]_vars

\* the stop attempts of the last invocation
StopTried(cs, p) == \E i \in 1..Len(cs) : cs[i].op = "stop" /\ cs[i].target = p
StopFailed(cs) == {i \in 1..Len(cs) : cs[i].op = "stop" /\ cs[i].rc # 0}

\* what the last invocation reported after its last stop attempt
EndReports(cs) ==
    {i \in 1..Len(cs) : /\ cs[i].op = "print"
                        /\ \A j \in StopFailed(cs) : j < i}

\* stop --all: every workspace of the project that exists and whose
\* container runs gets one stop attempt, whatever the earlier stops did,
\* and the command ends with status 0
C12_EveryRunningGetsStop ==
    [][(Mode(inv') = "stop" /\ inv'.all) =>
          /\ status' = "ok"
          /\ \A p \in {MainRoot, Wt1} :
                (p \in world.dirs /\ world.cont[p] = "running"
                   /\ (p = Wt1 => \E e \in world.gitwt : e.path = p))
                  => Cardinality({i \in 1..Len(calls') :
                        calls'[i].op = "stop" /\ calls'[i].target = p}) = 1]_vars

\* C12: in stop --all a failure to stop one workspace's container does not
\* abort the remaining targets: every existing workspace of the project
\* whose container is running receives a stop attempt, and when a stop
\* failed a summary of the failures is reported at the end.
C12_AsStated ==
    [][(Mode(inv') = "stop" /\ inv'.all) =>
          /\ \A p \in {MainRoot, Wt1} :
                (p \in world.dirs /\ world.cont[p] = "running"
                   /\ (p = Wt1 => \E e \in world.gitwt : e.path = p))
                  => StopTried(calls', p)
          /\ StopFailed(calls') # {} =>
                \E i \in EndReports(calls') : calls'[i].arg # NoneRunning]_vars

\* both containers ran, the worktree's stop failed, the main one stopped:
\* nothing is reported after the loop
C12_Witness ==
    /\ Mode(inv) = "stop" /\ inv.all /\ status = "ok"
    /\ Len(calls) = 4
    /\ calls[2] = Call("stop", Wt1, "", 1)
    /\ calls[4] = Call("stop", MainRoot, "", 0)
    /\ world.cont[Wt1] = "running" /\ world.cont[MainRoot] = "exited"

\* every stop failed: the command says that no container was running
C12_Misreport ==
    /\ Mode(inv) = "stop" /\ inv.all /\ status = "ok"
    /\ StopFailed(calls) # {}
    /\ Last(calls) = Call("print", MainRoot, NoneRunning, 0)
    /\ world.cont[MainRoot] = "running"


----------------------------------------------------------------------------
(* SpecSpawn: spawn, its start phase step by step.  The devcontainer up    *)
(* processes run beside the tool: each exits when it exits, with the       *)
(* status it exits with, while the tool launches the others and waits.     *)
(*   pc     "idle", or the phase of the running spawn: "launch", "join",   *)
(*          "report"                                                       *)
(*   todo   the worktree paths still to launch                             *)
(*   procs  processes, in launch order: the path, whether the process      *)
(*          still runs, its exit status, whether communicate() returned    *)

SpawnPrompt == "fix it"

SpawnArgs ==
    {[DefaultArgs EXCEPT !.spawn_given = TRUE, !.spawn = n,
                         !.prefix = SpawnPrefix, !.prompt = p, !.tmux = t] :
        n \in -1..MaxSpawn, p \in {None, SpawnPrompt}, t \in BOOLEAN}

\* the invocations that end in main or at the head of run_spawn_mode
SpawnCmd ==
    \E a \in SpawnArgs :
        /\ pc = "idle"
        /\ Dispatch(a) = "spawn"
        /\ check_tmux_guard(a) \/ a.spawn < 1
        /\ main(a, "spawn", run_spawn_mode(world, a, DefaultOutcome))

\* the invocations main answers with the help text
HelpCmd ==
    \E a \in SpawnArgs :
        /\ pc = "idle"
        /\ main(a, "help", print_help(world))

\* the worktrees are prepared one after the other; the start phase begins
\* unless the preparation ended the process
SpawnStarted(a, s1, worktree_paths) ==
    /\ world' = s1.w
    /\ inv' = a
    /\ calls' = s1.calls
    /\ created' = s1.created
    /\ status' = s1.status
    /\ pc' = IF s1.status = "run" THEN "launch" ELSE "idle"
    /\ todo' = IF s1.status = "run" THEN worktree_paths ELSE <<>>
    /\ procs' = <<>>
    /\ UNCHANGED <<stale_worktrees, batch_names, parsed_mounts, cfg, cache, inode0>>

SpawnPrepared(a, git_root, worktree_names) ==
    SpawnStarted(a,
        SpawnPrepare(Begin(world), git_root, worktree_names, 1, a, DefaultOutcome),
        SpawnPaths(git_root, worktree_names))

SpawnBegin ==
    \E a \in SpawnArgs :
        /\ pc = "idle"
        /\ Dispatch(a) = "spawn"
        /\ ~check_tmux_guard(a) /\ a.spawn >= 1
        /\ SpawnPrepared(a, find_git_root(world, a.cwd),
                         SpawnNames(a, DefaultOutcome, 1, {}))

\* proc = subprocess.Popen(cmd, ...); processes.append((path, proc))
SpawnPopen ==
    /\ pc = "launch"
    /\ calls' = Append(calls, Call("popen_up", Head(todo),
                    IF inv.new THEN "--remove-existing-container" ELSE "", 0))
    /\ procs' = Append(procs, [path |-> Head(todo), running |-> TRUE,
                               rc |-> 0, joined |-> FALSE])
    /\ todo' = Tail(todo)
    /\ pc' = IF Tail(todo) = <<>> THEN "join" ELSE "launch"
    /\ UNCHANGED <<stale_worktrees, batch_names, parsed_mounts, cfg, world, inv, status, created, cache, inode0>>

\* a devcontainer up process exits, 0 with its container running
UpExits ==
    \E i \in DOMAIN procs, rc \in {0, 1} :
        /\ pc \in {"launch", "join"}
        /\ procs[i].running
        /\ procs' = [procs EXCEPT ![i].running = FALSE, ![i].rc = rc]
        /\ world' = [world EXCEPT !.cont[procs[i].path] =
                                    IF rc = 0 THEN "running" ELSE @]
        /\ UNCHANGED <<stale_worktrees, batch_names, parsed_mounts, cfg, inv, calls, status, created, cache, pc, todo, inode0>>

\* the processes communicate() has not returned for yet
Unjoined == {i \in DOMAIN procs : ~procs[i].joined}

\* a faulty variant: the first failed process ends the waiting
SpawnJoin_abort ==
    /\ pc = "join"
    /\ \E i \in Unjoined :
        /\ \A j \in Unjoined : i <= j
        /\ ~procs[i].running
        /\ procs' = [procs EXCEPT ![i].joined = TRUE]
        /\ calls' = Append(calls, Call("join", procs[i].path, "", procs[i].rc))
        /\ pc' = IF Unjoined = {i} \/ procs[i].rc # 0 THEN "report" ELSE "join"
    /\ UNCHANGED <<stale_worktrees, batch_names, parsed_mounts, cfg, world, inv, status, created, cache, todo, inode0>>

\* stdout, stderr = proc.communicate(): returns once the process, the
\* first in launch order not yet waited for, has exited
SpawnJoin ==
    /\ pc = "join"
    /\ \E i \in Unjoined :
        /\ \A j \in Unjoined : i <= j
        /\ ~procs[i].running
        /\ procs' = [procs EXCEPT ![i].joined = TRUE]
        /\ calls' = Append(calls, Call("join", procs[i].path, "", procs[i].rc))
        /\ pc' = IF Unjoined = {i} THEN "report" ELSE "join"
    /\ UNCHANGED <<stale_worktrees, batch_names, parsed_mounts, cfg, world, inv, status, created, cache, todo, inode0>>

\* failed: the names of the processes whose returncode was not 0
FailedNames(ps) ==
    LET bad == SelectSeq(ps, LAMBDA q : q.joined /\ q.rc # 0)
    IN [i \in DOMAIN bad |-> PathName(bad[i].path)]

SpawnEnded(res) ==
    /\ world' = res.w
    /\ calls' = res.calls
    /\ status' = res.status
    /\ created' = res.created
    /\ pc' = "idle"
    /\ UNCHANGED <<stale_worktrees, batch_names, parsed_mounts, cfg, inv, cache, todo, inode0, procs>>

\* the loop has ended: the warning, the report or the tmux session
SpawnReport ==
    /\ pc = "report"
    /\ SpawnEnded(SpawnAgents(
            [w |-> world, calls |-> calls, status |-> "run", created |-> created],
            [i \in DOMAIN procs |-> procs[i].path],
            SpawnNames(inv, DefaultOutcome, 1, {}),
            FailedNames(procs), inv))

NextSpawn ==
    \/ SpawnCmd \/ HelpCmd \/ SpawnBegin
    \/ SpawnPopen \/ UpExits \/ SpawnJoin \/ SpawnReport

SpecSpawn == InitDestroy /\ [][NextSpawn]_vars

\* spawn N with N negative ends with an error and exit status 1, nothing
\* created and nothing started
C13_NegativeIsFatal ==
    [][(pc = "idle" /\ inv'.spawn_given /\ inv'.spawn < 0) =>
          (status' = "fatal" /\ calls' = <<>> /\ world' = world)]_vars

\* C13: spawn with N = 0 or N negative terminates with a non-zero status
\* and an error message, creates no worktree and starts no container; it
\* is never a silent no-op.  This holds for the command as main
\* dispatches it.
C13_AsStated ==
    [][(pc = "idle" /\ inv'.spawn_given /\ inv'.spawn < 1) =>
          (status' = "fatal" /\ calls' = <<>> /\ world' = world)]_vars

\* spawn 0: main prints the help text and the process ends with status 0
C13_Witness ==
    /\ inv.spawn_given /\ inv.spawn = 0 /\ ~inv.tmux
    /\ status = "ok"
    /\ calls = <<Call("print_help", NoRoot, "", 0)>>


----------------------------------------------------------------------------
(* C14, C15: the start phase of spawn and the session it opens.            *)

\* the last invocation was a spawn that ran to its end
SpawnDone ==
    /\ inv.spawn_given /\ inv.spawn >= 1
    /\ pc = "idle" /\ status = "ok"

JoinsOf(p) == {i \in Idx({"join"}) : calls[i].target = p}
TmuxOps ==
    {"tmux_kill_session", "tmux_new_session", "tmux_new_window",
     "tmux_send_keys", "tmux_attach"}
\* the workspaces whose process exited non-zero, in launch order
ExitedNonZero ==
    LET bad == SelectSeq(procs, LAMBDA q : q.rc # 0)
    IN [i \in DOMAIN bad |-> PathName(bad[i].path)]

\* C14: in the start phase of spawn all N devcontainer up processes are
\* launched and each is joined exactly once, whatever subset fails and in
\* whatever order they exit: the next launch and the next join are never
\* blocked by an exit status.  Nothing that depends on the partition is
\* issued before the last join, and the failed set warned about is
\* exactly the workspaces whose process exited non-zero.
C14_AllLaunchedAllJoined ==
    /\ pc = "launch" => ENABLED SpawnPopen
    /\ (pc = "join" /\ \A i \in DOMAIN procs : ~procs[i].running)
          => ENABLED SpawnJoin
    /\ pc \in {"launch", "join"} => Idx(TmuxOps \cup {"warn_failed"}) = {}
    /\ pc \in {"join", "report"} => Len(procs) = inv.spawn
    /\ (pc = "report" \/ SpawnDone) =>
          /\ Cardinality(Idx({"popen_up"})) = inv.spawn
          /\ Cardinality(Idx({"join"})) = inv.spawn
          /\ \A k \in DOMAIN procs :
                /\ \E i \in Idx({"popen_up"}) : calls[i].target = procs[k].path
                /\ Cardinality(JoinsOf(procs[k].path)) = 1
                /\ \A i \in JoinsOf(procs[k].path) : calls[i].rc = procs[k].rc
    /\ SpawnDone =>
          /\ \A i \in Idx(TmuxOps \cup {"warn_failed"}) :
                \A j \in Idx({"join"}) : j < i
          /\ ExitedNonZero = <<>> <=> Idx({"warn_failed"}) = {}
          /\ \A i \in Idx({"warn_failed"}) :
                calls[i].arg = JoinWith(ExitedNonZero, ", ")

\* spawn 2 ended: the first process failed, the second succeeded, both
\* were joined and the warning names the first alone
C14_Witness ==
    /\ SpawnDone /\ inv.spawn = 2
    /\ procs[1].rc = 1 /\ procs[2].rc = 0
    /\ procs[1].joined /\ procs[2].joined
    /\ \E i \in Idx({"warn_failed"}) : calls[i].arg = "1-feat"
    /\ world.cont[procs[2].path] = "running"

\* the second process has exited, with a failure, while the first runs
C14_OutOfOrder ==
    /\ pc = "join" /\ Len(procs) = 2
    /\ procs[1].running /\ ~procs[2].running /\ procs[2].rc = 1


\* the processes of the last spawn that exited 0
Succeeded == {k \in DOMAIN procs : procs[k].rc = 0}
WindowCalls == Idx({"tmux_new_session", "tmux_new_window"})
\* the send-keys call goes to window name of session spawn
SentTo(c, name) ==
    /\ Len(c.arg) > Len(name) + 6
    /\ SubSeq(c.arg, 1, Len(name) + 7) = "spawn:" \o name \o " "

\* C15: spawn with a prompt opens exactly one window per workspace whose
\* up process succeeded and none for a workspace whose up failed; the
\* command sent to a window runs in the workspace the window is named
\* after.  When no workspace succeeded no session is killed, created or
\* attached.
C15_WindowsForSucceeded ==
    (SpawnDone /\ Given(inv.prompt)) =>
        /\ Cardinality(WindowCalls) = Cardinality(Succeeded)
        /\ \A k \in DOMAIN procs :
              Cardinality({i \in WindowCalls :
                              calls[i].arg = PathName(procs[k].path)})
                = IF k \in Succeeded THEN 1 ELSE 0
        /\ Cardinality(Idx({"tmux_send_keys"})) = Cardinality(WindowCalls)
        /\ \A i \in WindowCalls :
              /\ calls[i + 1].op = "tmux_send_keys"
              /\ SentTo(calls[i + 1], calls[i].arg)
              /\ PathName(calls[i + 1].target) = calls[i].arg
              /\ \E k \in Succeeded : procs[k].path = calls[i + 1].target
        /\ Cardinality(Idx({"tmux_new_session"}))
             = IF Succeeded = {} THEN 0 ELSE 1
        /\ Succeeded = {} => Idx(TmuxOps) = {}
        /\ Succeeded # {} =>
              /\ Last(calls) = Call("tmux_attach", NoRoot, "spawn", 0)
              /\ \A i \in WindowCalls :
                    \E j \in Idx({"tmux_kill_session"}) : j < i

\* spawn 2 with a prompt: the first up failed, the second came up, and
\* the session has the one window 2-feat
C15_Witness ==
    /\ SpawnDone /\ Given(inv.prompt) /\ inv.spawn = 2
    /\ procs[1].rc = 1 /\ procs[2].rc = 0
    /\ WindowCalls # {}
    /\ \A i \in WindowCalls : calls[i].arg = "2-feat"
    /\ Last(calls).op = "tmux_attach"

\* spawn with a prompt where every up failed: the warning is the last thing
C15_NoneSucceeded ==
    /\ SpawnDone /\ Given(inv.prompt) /\ inv.spawn = 2
    /\ Succeeded = {}
    /\ Last(calls).op = "warn_failed"


----------------------------------------------------------------------------
(* SpecGuard: the seven commands main guards, inside and outside tmux,     *)
(* alone and with each of --detach, --prompt, --shell and --run.           *)

GuardModes ==
    {m \in UsedSubModes : ~(m.shell /\ Given(m.run))}

GuardedArgs(a) ==
    {WithSubMode([a EXCEPT !.tmux = t], m) : t \in BOOLEAN, m \in GuardModes}

SwitchCmd ==
    \E a \in GuardedArgs([DefaultArgs EXCEPT !.switch = TRUE]) :
        main(a, "switch", run_switch_mode(world, a, DefaultOutcome))

AttachCmd ==
    \E a \in GuardedArgs([DefaultArgs EXCEPT !.attach = TRUE]) :
        main(a, "attach", run_attach_mode(world, a, DefaultOutcome))

SpawnOneCmd ==
    \E a \in GuardedArgs([DefaultArgs EXCEPT !.spawn_given = TRUE, !.spawn = 1,
                                            !.prefix = SpawnPrefix]) :
        main(a, "spawn", run_spawn_mode(world, a, DefaultOutcome))

InitCmd ==
    \E a \in GuardedArgs([DefaultArgs EXCEPT !.cwd = PlainRoot, !.init = TRUE]) :
        main(a, "init", run_init_mode(world, a, DefaultOutcome))

CreateCmd ==
    \E a \in GuardedArgs([DefaultArgs EXCEPT !.cwd = <<"tmp">>, !.create = "proj"]) :
        main(a, "create", run_create_mode(world, a,
                            [DefaultOutcome EXCEPT !.langs = <<"go">>]))

TreeCmd ==
    \E a \in GuardedArgs([DefaultArgs EXCEPT !.tree = ""]) :
        main(a, "tree", run_tree_mode(world, a, DefaultOutcome))

StartGuardedCmd ==
    \E a \in GuardedArgs([DefaultArgs EXCEPT !.start = TRUE]) :
        main(a, "start", run_default_mode(world, a, DefaultOutcome))

\* no command at all: jolo, jolo -d, jolo --shell, ...
BareCmd ==
    \E a \in GuardedArgs(DefaultArgs) :
        main(a, "help", print_help(world))

NextGuard ==
    \/ SwitchCmd \/ AttachCmd \/ SpawnOneCmd \/ InitCmd \/ CreateCmd
    \/ TreeCmd \/ StartGuardedCmd \/ BareCmd

SpecGuard == InitCalls /\ [][NextGuard]_vars

GuardedModes == {"switch", "attach", "spawn", "init", "create", "tree", "start"}
Unmodified(a) == ~a.detach /\ ~Given(a.prompt) /\ ~a.shell /\ ~Given(a.run)

\* C16: with TMUX set and none of --detach, --prompt, --run and --shell
\* given, each of switch, attach, spawn, init, create, tree and start, as
\* main dispatches them (spawn N with N not 0), ends with an error before
\* any git, file system or container operation: no call is issued and the
\* host is as it was.
C16_GuardBeforeAnything ==
    [][(inv'.tmux /\ Mode(inv') \in GuardedModes /\ Unmodified(inv')) =>
          (status' = "fatal" /\ calls' = <<>> /\ world' = world)]_vars

\* create inside tmux: the error, and no project directory
C16_Witness ==
    /\ inv.tmux /\ Mode(inv) = "create" /\ Unmodified(inv)
    /\ status = "fatal" /\ calls = <<>>
    /\ ProjRoot \notin world.dirs

\* inside tmux with --detach the guard is not consulted
C16_DetachedRuns ==
    /\ inv.tmux /\ Mode(inv) = "create" /\ inv.detach
    /\ status = "ok" /\ ProjRoot \in world.dirs


----------------------------------------------------------------------------
(* C17: the invocation that names no command.                              *)

\* ensure-ready, start, attach for the root: the descriptor is there, the
\* container was found running or was started, and the last thing run is
\* the tmux session in the container of the root
ReadyStartedAttached(w, cs, root) ==
    /\ root \in w.dcdir
    /\ w.cont[root] = "running"
    /\ \E i \in 1..Len(cs) :
          /\ cs[i].target = root
          /\ \/ cs[i].op = "probe" /\ cs[i].rc = 0
             \/ cs[i].op = "up" /\ cs[i].rc = 0
    /\ cs # <<>>
    /\ Last(cs) = Call("exec_tmux", root, TmuxShellCmd, 0)

\* jolo start in the repository, outside tmux and with no modifier, does
\* ensure-ready, start and attach for the root
C17_StartDoes ==
    [][(Mode(inv') = "start" /\ ~inv'.tmux /\ Unmodified(inv')) =>
          /\ status' = "ok"
          /\ ReadyStartedAttached(world', calls', find_git_root(world, inv'.cwd))]_vars

\* C17: invoked with no subcommand inside a repository, the tool performs
\* ensure-ready, then start, then attach for the current repository root.
C17_AsStated ==
    [][(Mode(inv') = "help" /\ ~inv'.spawn_given /\ ~inv'.tmux
          /\ Unmodified(inv') /\ find_git_root(world, inv'.cwd) # NoRoot) =>
          /\ status' = "ok"
          /\ ReadyStartedAttached(world', calls', find_git_root(world, inv'.cwd))]_vars

\* jolo alone in the repository, its container stopped: the help text is
\* all that happens
C17_Witness ==
    /\ Mode(inv) = "help" /\ ~inv.spawn_given /\ ~inv.tmux /\ Unmodified(inv)
    /\ inv.cwd = MainRoot
    /\ status = "ok"
    /\ calls = <<Call("print_help", NoRoot, "", 0)>>
    /\ world.cont[MainRoot] = "exited"


----------------------------------------------------------------------------
(* SpecSwitch: switch at each of its pickers, with containers that are     *)
(* started and stopped in between.                                         *)

InitSwitchWorlds ==
    {[w EXCEPT !.env.picker = k] :
        w \in InitDestroyWorlds, k \in {"fzf", "gum", None}}

\* how a picker can end when two lines are shown
ToolPicks == {NonZero, INT, "1", "2"}
PromptPicks == {EOF, INT, "1", " 2 ", "", "x", "0", "3"}

SwitchPick ==
    \E pick \in ToolPicks \cup PromptPicks :
        /\ pick \in IF world.env.picker = None THEN PromptPicks ELSE ToolPicks
        /\ LET a == [DefaultArgs EXCEPT !.switch = TRUE]
           IN main(a, "switch", run_switch_mode(world, a,
                                    [DefaultOutcome EXCEPT !.pick = pick]))

InitSwitch ==
    /\ world \in InitSwitchWorlds
    /\ inv = DefaultArgs
    /\ calls = <<>>
    /\ status = "ok"
    /\ created = "none"
    /\ cache = <<>>
    /\ pc = "idle"
    /\ todo = <<>>
    /\ inode0 = <<>>
    /\ procs = <<>>
    /\ parsed_mounts = <<>>
    /\ batch_names = <<>>
    /\ stale_worktrees = NotAsked
    /\ cfg = <<>>

NextSwitch == SwitchPick \/ StopCmd \/ StartCmd

SpecSwitch == InitSwitch /\ [][NextSwitch]_vars

PickOps == {"fzf", "gum", "ask_pick"}
\* the picker was left: a non-zero exit, an interrupt, the end of input
Cancelled(c) == c.op \in PickOps /\ c.arg \in {NonZero, INT, EOF}

\* C18: in switch, leaving the picker (fzf or gum exiting non-zero, an
\* interrupt at any picker, the end of input at the numbered prompt) is a
\* silent no-op: nothing is run after the picker, nothing is attached,
\* the host is as it was and the process ends with status 0.
C18_CancelIsNoOp ==
    [][(Mode(inv') = "switch" /\ \E i \in 1..Len(calls') : Cancelled(calls'[i])) =>
          /\ status' = "ok"
          /\ Len(calls') = 1
          /\ world' = world]_vars

\* the numbered prompt, two containers running, input ends
C18_Witness ==
    /\ Mode(inv) = "switch" /\ status = "ok"
    /\ world.env.picker = None
    /\ calls = <<Call("ask_pick", NoRoot, EOF, 0)>>
    /\ world.cont[MainRoot] = "running" /\ world.cont[Wt1] = "running"

\* a line that is no number is an error, not a cancellation
C18_InvalidIsError ==
    /\ Mode(inv) = "switch" /\ status = "fatal"
    /\ calls = <<Call("ask_pick", NoRoot, "", 0)>>

\* the second line, typed with blanks around it, attaches to the main root
C18_Picked ==
    /\ Mode(inv) = "switch" /\ status = "ok"
    /\ Len(calls) = 2
    /\ calls[1] = Call("ask_pick", NoRoot, " 2 ", 0)
    /\ calls[2].op = "exec_tmux"


----------------------------------------------------------------------------
(* C19: sync.                                                              *)

\* C19: sync writes devcontainer.json and the Dockerfile from the
\* templates whatever .devcontainer held before (nothing, files a user
\* wrote, a descriptor with appended mounts, a file that is not JSON), and
\* a second sync right after, with the same configuration and host
\* environment, leaves the files as the first left them.
C19_SyncRewrites ==
    [][(Mode(inv') = "sync" /\ find_git_root(world, inv'.cwd) # NoRoot) =>
          LET root == find_git_root(world, inv'.cwd)
          IN /\ status' = "ok"
             /\ root \in world'.dcdir
             /\ world'.json[root] =
                  build_devcontainer_json(PathName(root), 4000, world.env)
             /\ world'.docker[root] = DockerfileContent(DEFAULT_CONFIG, world.env)
             /\ run_sync_mode(world', inv', DefaultOutcome).w = world']_vars

\* the root was synced after a worktree had copied the descriptor the user
\* wrote: the worktree still has the user's, the root has the template's
C19_Witness ==
    /\ Mode(inv) = "sync" /\ status = "ok"
    /\ world.json[MainRoot] = build_devcontainer_json("MyApp", 4000, world.env)
    /\ world.docker[MainRoot] = DockerfileContent(DEFAULT_CONFIG, world.env)
    /\ \E p \in WtPaths : world.json[p].kind = "json" /\ world.json[p].custom
                          /\ world.docker[p] = UserDockerfile


----------------------------------------------------------------------------
(* SpecConfig: load_config over the config files it may find.              *)
(*   cfg   global, project: ~/.config/jolo/config.toml and ./.jolo.toml,   *)
(*         as tomllib.load reads them; heap: the dict objects of the       *)
(*         process,                                                        *)
(*         "DEFAULT_CONFIG" the module's table and, once load_config has   *)
(*         run, "config" the dict it returned                              *)
(* A dict is a function from its keys.  The values are compared, not       *)
(* their identity: copy() is shallow, and load_config replaces values, it  *)
(* never changes one in place.                                             *)

\* a config file: whether it exists and the table tomllib.load gives
NoFile == [exists |-> FALSE, items |-> <<>>]

\* what a config file may set, each key there or not
GlobalSettings ==
    [base_image |-> "global/image:v1", pass_path_anthropic |-> "custom/path",
     agents |-> <<"gemini">>, editor |-> "emacs"]
ProjectSettings ==
    [base_image |-> "project/image:v2", agents |-> <<"codex", "claude">>,
     base_port |-> 5000, editor |-> "vi"]
Restrict(f, K) == [k \in K |-> f[k]]
ConfigFiles(settings) ==
    {NoFile} \cup {[exists |-> TRUE, items |-> Restrict(settings, K)] :
                      K \in SUBSET DOMAIN settings}

\* dict.copy(): a new dict object dst with the items of src
DictCopy(heap, src, dst) ==
    [o \in DOMAIN heap \cup {dst} |-> IF o = dst THEN heap[src] ELSE heap[o]]

\* d.update(other): every key of other is set in d, the object itself
DictUpdate(heap, d, other) ==
    [heap EXCEPT ![d] = [k \in DOMAIN @ \cup DOMAIN other |->
                            IF k \in DOMAIN other THEN other[k] ELSE @[k]]]

\* if file.exists(): config.update(tomllib.load(f))
UpdateFrom(heap, d, file) ==
    IF ~file.exists THEN heap ELSE DictUpdate(heap, d, file.items)

\* a faulty variant: config is the defaults table itself, not a copy
load_config_alias(heap, global_cfg, project_cfg) ==
    LET h == UpdateFrom(UpdateFrom(heap, "DEFAULT_CONFIG", global_cfg),
                        "DEFAULT_CONFIG", project_cfg)
    IN DictCopy(h, "DEFAULT_CONFIG", "config")

\* the heap load_config leaves; the dict it returns is "config"
load_config(heap, global_cfg, project_cfg) ==
    UpdateFrom(UpdateFrom(DictCopy(heap, "DEFAULT_CONFIG", "config"),
                          "config", global_cfg),
               "config", project_cfg)

LoadConfig ==
    /\ "config" \notin DOMAIN cfg.heap
    /\ cfg' = [cfg EXCEPT !.heap = load_config(@, cfg.global, cfg.project)]
    /\ UNCHANGED <<stale_worktrees, batch_names, parsed_mounts, world, inv, calls, status, created, cache, pc, todo, inode0,
                   procs>>

\* the files are edited between two processes
EditConfig ==
    /\ "config" \in DOMAIN cfg.heap
    /\ \E g \in ConfigFiles(GlobalSettings), p \in ConfigFiles(ProjectSettings) :
          cfg' = [global |-> g, project |-> p,
                  heap |-> [o \in {"DEFAULT_CONFIG"} |-> DEFAULT_CONFIG]]
    /\ UNCHANGED <<stale_worktrees, batch_names, parsed_mounts, world, inv, calls, status, created, cache, pc, todo, inode0,
                   procs>>

InitConfig ==
    /\ world = EmptyWorld
    /\ inv = DefaultArgs
    /\ calls = <<>>
    /\ status = "ok"
    /\ created = "none"
    /\ cache = <<>>
    /\ pc = "idle"
    /\ todo = <<>>
    /\ inode0 = <<>>
    /\ procs = <<>>
    /\ parsed_mounts = <<>>
    /\ batch_names = <<>>
    /\ stale_worktrees = NotAsked
    /\ cfg \in {[global |-> g, project |-> p,
                 heap |-> [o \in {"DEFAULT_CONFIG"} |-> DEFAULT_CONFIG]] :
                    g \in ConfigFiles(GlobalSettings),
                    p \in ConfigFiles(ProjectSettings)}

NextConfig == LoadConfig \/ EditConfig

SpecConfig == InitConfig /\ [][NextConfig]_vars

KeysOf(file) == IF file.exists THEN DOMAIN file.items ELSE {}

\* C20: load_config resolves every key by the layers: the project file's
\* value if the key is there, else the global file's if it is there, else
\* the built-in default; a key a higher layer does not mention keeps the
\* lower layer's value; the keys are those of the three layers; and
\* DEFAULT_CONFIG is after the load what it was before.
C20_LayeredOverride ==
    "config" \in DOMAIN cfg.heap =>
        /\ DOMAIN cfg.heap["config"] =
              DOMAIN DEFAULT_CONFIG \cup KeysOf(cfg.global) \cup KeysOf(cfg.project)
        /\ \A k \in DOMAIN cfg.heap["config"] :
              cfg.heap["config"][k] =
                 IF k \in KeysOf(cfg.project) THEN cfg.project.items[k]
                 ELSE IF k \in KeysOf(cfg.global) THEN cfg.global.items[k]
                 ELSE DEFAULT_CONFIG[k]
        /\ DOMAIN cfg.heap["DEFAULT_CONFIG"] = DOMAIN DEFAULT_CONFIG
        /\ \A k \in DOMAIN DEFAULT_CONFIG :
              cfg.heap["DEFAULT_CONFIG"][k] = DEFAULT_CONFIG[k]

\* the test's partial override: the project sets base_image alone, the
\* global file base_image and pass_path_anthropic
C20_Witness ==
    /\ "config" \in DOMAIN cfg.heap
    /\ KeysOf(cfg.global) = {"base_image", "pass_path_anthropic"}
    /\ KeysOf(cfg.project) = {"base_image"}
    /\ cfg.heap["config"]["base_image"] = "project/image:v2"
    /\ cfg.heap["config"]["pass_path_anthropic"] = "custom/path"
    /\ cfg.heap["config"]["pass_path_openai"] = "api/llm/openai"
    /\ cfg.heap["config"]["base_port"] = 4000
    /\ cfg.heap["DEFAULT_CONFIG"]["base_image"] = "localhost/emacs-gui:latest"

----------------------------------------------------------------------------
(* --mount, step by step: the list comprehension over args.mount that      *)
(* calls parse_mount for one argument after the other, and add_user_mounts *)
(* on the list it built.                                                   *)
(*   parsed_mounts   at: "parse" while the comprehension runs, "done" when *)
(*                   add_user_mounts has returned or raised, "exit" when   *)
(*                   parse_mount has called sys.exit; args: args.mount;    *)
(*                   list: the mounts parsed so far                        *)

\* entries add_user_mounts may add to one descriptor, all runs together
MaxAdded == 2

\* the entries of a descriptor that name a host path
AddedCount(c) ==
    Cardinality({i \in 1..Len(c.mounts) :
        Len(c.mounts[i]) >= 8 /\ SubSeq(c.mounts[i], 1, 8) = "source=/"})

\* what the user may write after --mount
MountArgStrings ==
    {"~/data:foo", "~/data:foo:ro", "~/data:/mnt/data", "~/data:/mnt/data:ro",
     "/srv/x:a:b", "~/data:ro", "nocolon", "~/data:"}

MountArgSeqs ==
    {<<>>} \cup {<<m>> : m \in MountArgStrings}
           \cup {<<m, n>> : m \in MountArgStrings, n \in MountArgStrings}

\* descriptors add_user_mounts may find: the one a user wrote, with and
\* without entries in "mounts", the generated one and a file that is no JSON
FoundDescriptors ==
    {UserDescriptor, [UserDescriptor EXCEPT !.mounts = <<>>],
     build_devcontainer_json("MyApp", 4000, EmptyWorld.env), Malformed}

MountWorld(d) ==
    [EmptyWorld EXCEPT !.dcdir = {MainRoot}, !.json[MainRoot] = d]

\* a process is started with --mount arguments
MountsGiven ==
    /\ parsed_mounts.at \in {"done", "exit"}
    /\ \E m \in MountArgSeqs :
          parsed_mounts' = [at |-> "parse", project |-> "MyApp",
                            args |-> m, list |-> <<>>]
    /\ status' = "run"
    /\ UNCHANGED <<stale_worktrees, batch_names, world, inv, calls, created, cache, pc, todo, inode0, procs,
                   cfg>>

\* one round of [parse_mount(m, project_name) for m in args.mount]
ParseNext ==
    /\ parsed_mounts.at = "parse"
    /\ Len(parsed_mounts.list) < Len(parsed_mounts.args)
    /\ LET mount == parse_mount(parsed_mounts.args[Len(parsed_mounts.list) + 1],
                                parsed_mounts.project)
       IN IF mount.ok
          THEN /\ parsed_mounts' = [parsed_mounts EXCEPT !.list = Append(@, mount)]
               /\ UNCHANGED status
          ELSE /\ parsed_mounts' = [parsed_mounts EXCEPT !.at = "exit"]
               /\ status' = "fatal"
    /\ UNCHANGED <<stale_worktrees, batch_names, world, inv, calls, created, cache, pc, todo, inode0, procs,
                   cfg>>

AddedMounts(res) ==
    /\ world' = res.w
    /\ status' = res.status
    /\ parsed_mounts' = [parsed_mounts EXCEPT !.at = "done"]

\* add_user_mounts(devcontainer_json, parsed_mounts)
AddMounts ==
    /\ parsed_mounts.at = "parse"
    /\ Len(parsed_mounts.list) = Len(parsed_mounts.args)
    /\ world.json[MainRoot].kind = "json" =>
          AddedCount(world.json[MainRoot]) + Len(parsed_mounts.list) <= MaxAdded
    /\ AddedMounts(add_user_mounts(Begin(world), MainRoot, parsed_mounts.list))
    /\ UNCHANGED <<stale_worktrees, batch_names, inv, calls, created, cache, pc, todo, inode0, procs, cfg>>

InitMounts ==
    /\ world \in {MountWorld(d) : d \in FoundDescriptors}
    /\ inv = DefaultArgs
    /\ calls = <<>>
    /\ status = "run"
    /\ created = "none"
    /\ cache = <<>>
    /\ pc = "idle"
    /\ todo = <<>>
    /\ inode0 = <<>>
    /\ procs = <<>>
    /\ cfg = <<>>
    /\ parsed_mounts \in {[at |-> "parse", project |-> "MyApp", args |-> m,
                           list |-> <<>>] : m \in MountArgSeqs}
    /\ batch_names = <<>>
    /\ stale_worktrees = NotAsked

NextMounts == MountsGiven \/ ParseNext \/ AddMounts

SpecMounts == InitMounts /\ [][NextMounts]_vars

\* the step in which add_user_mounts runs
AddMountsStep == parsed_mounts.at = "parse" /\ parsed_mounts'.at = "done"

\* C21: add_user_mounts on a descriptor with K mounts and M new ones leaves
\* K + M entries: the K it found, as they were and in their order, then the
\* M new ones in the order given; name, port and the user's other keys are
\* what they were and nothing else on the host changes; with M = 0 the
\* file is not written at all.
C21_AppendsInOrder ==
    [][AddMountsStep =>
        LET old == world.json[MainRoot]
            new == world'.json[MainRoot]
            K == Len(old.mounts)
            M == Len(parsed_mounts.list)
        IN IF M = 0 THEN world' = world /\ status' = status
           ELSE old.kind = "json" =>
                  /\ status' = status
                  /\ new.kind = "json"
                  /\ Len(new.mounts) = K + M
                  /\ \A i \in 1..K : new.mounts[i] = old.mounts[i]
                  /\ \A i \in 1..M :
                        new.mounts[K + i] =
                            "source=" \o parsed_mounts.list[i].source
                              \o ",target=" \o parsed_mounts.list[i].target
                              \o ",type=bind"
                              \o (IF parsed_mounts.list[i].readonly
                                  THEN ",readonly" ELSE "")
                  /\ new.name = old.name
                  /\ new.port = old.port
                  /\ new.custom = old.custom
                  /\ [world' EXCEPT !.json[MainRoot] = old] = world]_vars

\* the test's descriptor, {"name": "test", "mounts": ["existing"]}, after
\* two mounts were added
C21_Witness ==
    /\ parsed_mounts.at = "done"
    /\ Len(parsed_mounts.list) = 2
    /\ world.json[MainRoot].kind = "json"
    /\ world.json[MainRoot].name = "test"
    /\ world.json[MainRoot].mounts =
          <<"existing",
            "source=/home/dev/data,target=/workspaces/MyApp/foo,type=bind,readonly",
            "source=/home/dev/data,target=/mnt/data,type=bind">>

EndsWithRo(arg) == Len(arg) >= 3 /\ SubSeq(arg, Len(arg) - 2, Len(arg)) = ":ro"

\* the argument without its ":ro"
BeforeRo(arg) == IF EndsWithRo(arg) THEN SubSeq(arg, 1, Len(arg) - 3) ELSE arg

\* C22: every argument parse_mount accepts has a ":" left once a trailing
\* ":ro" is taken off; readonly is set exactly when the ":ro" was there;
\* the source is what stands before the first ":" (with ~ expanded), the
\* target what stands after it, kept when it starts with "/" and put under
\* /workspaces/<project>/ when not; an argument with nothing after the
\* source once ":ro" is taken off ends the process with a fatal error.
C22_ParseMount ==
    /\ \A i \in 1..Len(parsed_mounts.list) :
          LET arg == parsed_mounts.args[i]
              mount == parsed_mounts.list[i]
              k == FindChar(BeforeRo(arg), ":", 1)
              target == SubSeq(BeforeRo(arg), k + 1, Len(BeforeRo(arg)))
          IN /\ k # 0
             /\ mount.readonly = EndsWithRo(arg)
             /\ mount.source = Expanduser(SubSeq(BeforeRo(arg), 1, k - 1))
             /\ mount.target =
                   IF Len(target) >= 1 /\ SubSeq(target, 1, 1) = "/"
                   THEN target
                   ELSE "/workspaces/" \o parsed_mounts.project \o "/" \o target
    /\ parsed_mounts.at = "exit" <=>
          /\ status = "fatal"
          /\ Len(parsed_mounts.list) < Len(parsed_mounts.args)
          /\ FindChar(BeforeRo(parsed_mounts.args[Len(parsed_mounts.list) + 1]),
                      ":", 1) = 0
    /\ parsed_mounts.at = "done" =>
          Len(parsed_mounts.list) = Len(parsed_mounts.args)

\* --mount ~/data:foo:ro --mount ~/data:ro: the first is parsed as the
\* test expects, the second has lost its target to the suffix
C22_Witness ==
    /\ parsed_mounts.at = "exit"
    /\ parsed_mounts.args = <<"~/data:foo:ro", "~/data:ro">>
    /\ parsed_mounts.list =
          <<[ok |-> TRUE, source |-> "/home/dev/data",
             target |-> "/workspaces/MyApp/foo", readonly |-> TRUE]>>
    /\ status = "fatal"

----------------------------------------------------------------------------
(* destroy and prune next to another repository of the same name: the      *)
(* engine also holds a container labelled /other/MyApp-worktrees/x.        *)

InitForeignWorlds ==
    {[w EXCEPT !.cont[ForeignWt] = cf,
               !.dirs = @ \cup (IF there THEN {ForeignWt} ELSE {})] :
        w \in InitDestroyWorlds, cf \in {"running", "exited"},
        there \in BOOLEAN}

InitForeign ==
    /\ world \in {w \in InitForeignWorlds : WithinBounds(w)}
    /\ inv = DefaultArgs
    /\ calls = <<>>
    /\ status = "ok"
    /\ created = "none"
    /\ cache = <<>>
    /\ pc = "idle"
    /\ todo = <<>>
    /\ inode0 = <<>>
    /\ procs = <<>>
    /\ parsed_mounts = <<>>
    /\ batch_names = <<>>
    /\ stale_worktrees = NotAsked
    /\ cfg = <<>>

SpecForeign == InitForeign /\ [][NextDestroy]_vars

\* the folders of the project: its root and what lies directly inside
\* <parent of root>/<project>-worktrees
InProject(folder) ==
    folder = MainRoot \/ (Len(folder) >= 2 /\ PathParent(folder) = WorktreesDir(MainRoot))

ProjectScoped == inv.destroy \/ (inv.prune /\ ~inv.all)

\* C23: destroy and prune of the project stop and remove only containers
\* labelled with the project root or a directory directly inside
\* <parent of root>/<project>-worktrees; the container of another
\* repository's MyApp-worktrees is left alone.
C23_AsStated ==
    ProjectScoped =>
        \A i \in 1..Len(calls) :
            calls[i].op \in {"stop", "rm"} => InProject(calls[i].target)

\* what the code keeps to: the folder is the root, or its parent directory
\* is named <project>-worktrees, wherever that directory lies
C23_MatchedByName ==
    ProjectScoped =>
        \A i \in 1..Len(calls) :
            calls[i].op \in {"stop", "rm"} =>
                \/ calls[i].target = MainRoot
                \/ PathName(PathParent(calls[i].target)) = "MyApp-worktrees"

\* destroy in /dev/MyApp has stopped and removed the running container of
\* /other/MyApp-worktrees/x
C23_Witness ==
    /\ inv.destroy
    /\ status = "ok"
    /\ world.cont[ForeignWt] = "none"
    /\ \E i, j \in 1..Len(calls) :
          /\ i < j
          /\ calls[i] = Call("stop", ForeignWt, "", 0)
          /\ calls[j] = Call("rm", ForeignWt, "", 0)

----------------------------------------------------------------------------
(* destroy: stops and removals.                                            *)

\* a stop of the folder that exited 0 stands before position j
StoppedBefore(cs, folder, j) ==
    \E i \in 1..(j - 1) : cs[i] = Call("stop", folder, "", 0)

\* a stop of the folder, whatever its exit status, stands before position j
StopTriedBefore(cs, folder, j) ==
    \E i \in 1..(j - 1) : cs[i].op = "stop" /\ cs[i].target = folder

\* C24: in destroy a removal is issued for a container only when it is not
\* running: one that ran is stopped first, and when its stop failed the
\* removal is not attempted.
C24_AsStated ==
    [][inv'.destroy =>
        \A j \in 1..Len(calls') :
            calls'[j].op = "rm" =>
                \/ world.cont[calls'[j].target] # "running"
                \/ StoppedBefore(calls', calls'[j].target, j)]_vars

\* what destroy keeps to: the stop of a running container is attempted
\* before its removal is
C24_StopTriedFirst ==
    [][inv'.destroy =>
        \A j \in 1..Len(calls') :
            (calls'[j].op = "rm" /\ world.cont[calls'[j].target] = "running")
                => StopTriedBefore(calls', calls'[j].target, j)]_vars

\* the stop of the worktree's container failed, its removal was attempted
\* and refused by the engine, and the container still runs
C24_Witness ==
    /\ inv.destroy
    /\ world.cont[Wt1] = "running"
    /\ \E i, j \in 1..Len(calls) :
          /\ i < j
          /\ calls[i] = Call("stop", Wt1, "", 1)
          /\ calls[j] = Call("rm", Wt1, "", 1)

----------------------------------------------------------------------------
(* devcontainer up and the descriptor.                                     *)

UpOps == {"up", "popen_up"}

\* a worktree made by hand with git worktree add -b NAME PATH: registered,
\* checked out, and without a .devcontainer unless one is committed
HandMade(w, name) ==
    LET path == get_worktree_path(MainRoot, name)
    IN Checkout([w EXCEPT !.dirs = @ \cup {WorktreesDir(MainRoot), path},
                          !.gitmark[path] = "file",
                          !.gitwt = @ \cup {[path |-> path, branch |-> name]},
                          !.branches = @ \cup {name}],
                path)

\* the repository before the command: never started, started before, or
\* with a .devcontainer directory that holds no devcontainer.json; alone,
\* or with a hand-made worktree of the name tree or spawn will ask for
InitUpWorlds ==
    LET bases == {EmptyWorld, [EmptyWorld EXCEPT !.dcdir = {MainRoot}]}
                    \cup {w \in InitCallWorlds : w.cont[MainRoot] = "none"}
    IN bases \cup {HandMade(w, name) :
                      w \in bases, name \in {"brave-panda", SpawnName(1, SpawnPrefix)}}

InitUp ==
    /\ world \in InitUpWorlds
    /\ inv = DefaultArgs
    /\ calls = <<>>
    /\ status = "ok"
    /\ created = "none"
    /\ cache = <<>>
    /\ pc = "idle"
    /\ todo = <<>>
    /\ inode0 = <<>>
    /\ procs = <<>>
    /\ parsed_mounts = <<>>
    /\ batch_names = <<>>
    /\ stale_worktrees = NotAsked
    /\ cfg = <<>>

NextUp == Start \/ Tree \/ Spawn \/ CreateCall \/ InitCall

SpecUp == InitUp /\ [][NextUp]_vars

\* C25: start, tree, spawn, create and init never invoke devcontainer up
\* for a workspace that has no .devcontainer/devcontainer.json, whatever
\* the host looked like before, a worktree directory that was already
\* there included.
C25_AsStated ==
    \A i \in 1..Len(calls) :
        calls[i].op \in UpOps => world.json[calls[i].target] # Absent

\* where the descriptor is made sure of: up is invoked without one only for
\* a worktree directory tree or spawn found in place, or for a workspace
\* whose .devcontainer directory was there without the file
C25_FreshHasDescriptor ==
    [][\A i \in 1..Len(calls') :
          (calls'[i].op \in UpOps /\ world'.json[calls'[i].target] = Absent)
             => /\ calls'[i].target \in world.dirs
                /\ \/ inv'.tree # None \/ inv'.spawn_given
                   \/ calls'[i].target \in world.dcdir]_vars

\* tree found the worktree brave-panda in place, scaffolded nothing and
\* invoked devcontainer up for it
C25_Witness ==
    /\ inv.tree # None
    /\ world.json[get_worktree_path(MainRoot, "brave-panda")] = Absent
    /\ \E i \in 1..Len(calls) :
          /\ calls[i].op = "up"
          /\ calls[i].target = get_worktree_path(MainRoot, "brave-panda")

----------------------------------------------------------------------------
(* prune: the buckets, and the order of stops and removals.                *)

\* prune has read "y" at its prompt
PruneConfirmed(a, cs) ==
    /\ a.prune
    /\ \E i \in 1..Len(cs) : cs[i].op = "ask_prune" /\ Lower(cs[i].arg) = "y"

\* the container prune --all or prune in the repository looks at
Looked(w, a, f) == w.cont[f] # "none" /\ InPruneScope(f, PruneScope(w, a))

\* running, and the folder it is labelled with is gone
IsOrphan(w, f) == w.cont[f] = "running" /\ f \notin w.dirs

\* positions of the calls op issued for folder f
CallsOn(cs, op, f) == {i \in 1..Len(cs) : cs[i].op = op /\ cs[i].target = f}

\* C26: prune, in a repository and with --all, once confirmed, issues no
\* stop and no removal for a container that runs and whose folder exists,
\* and the container still runs afterwards.
C26_RunningInPlaceKept ==
    [][PruneConfirmed(inv', calls') =>
        \A f \in Folders :
            (world.cont[f] = "running" /\ f \in world.dirs) =>
                /\ CallsOn(calls', "stop", f) = {}
                /\ CallsOn(calls', "rm", f) = {}
                /\ world'.cont[f] = "running"]_vars

\* prune --all, confirmed, has removed the stopped container of the other
\* repository while the container of /dev/MyApp runs on
C26_Witness ==
    /\ PruneConfirmed(inv, calls)
    /\ inv.all
    /\ MainRoot \in world.dirs
    /\ world.cont[MainRoot] = "running"
    /\ \E i \in 1..Len(calls) : calls[i] = Call("rm", ForeignWt, "", 0)
    /\ CallsOn(calls, "stop", MainRoot) = {}

\* C27: in prune, in a repository and with --all, every orphaned running
\* container has its stop issued before the first removal of a container.
C27_StopsBeforeRemovals ==
    [][PruneConfirmed(inv', calls') =>
        /\ \A i, j \in 1..Len(calls') :
              (calls'[i].op = "stop" /\ calls'[j].op = "rm") => i < j
        /\ \A f \in Folders :
              (Looked(world, inv', f) /\ IsOrphan(world, f)) =>
                  CallsOn(calls', "stop", f) # {}]_vars

\* two orphans and a stopped container: both stops stand before the three
\* removals
C27_Witness ==
    /\ PruneConfirmed(inv, calls)
    /\ Cardinality({i \in 1..Len(calls) : calls[i].op = "stop"}) = 2
    /\ Cardinality({i \in 1..Len(calls) : calls[i].op = "rm"}) = 3
    /\ \E i \in 1..Len(calls) :
          /\ calls[i].op = "rm"
          /\ CallsOn(calls, "stop", Wt1) # {}
          /\ CallsOn(calls, "stop", ForeignWt) # {}
          /\ \A k \in CallsOn(calls, "stop", Wt1)
                      \cup CallsOn(calls, "stop", ForeignWt) : k < i
          /\ \A j \in 1..(i - 1) : calls[j].op # "rm"

\* C28: of the containers prune looks at, one that runs and whose folder is
\* gone is an orphan and not in the stopped bucket, and no container is in
\* both buckets: an orphan gets one stop and, after the removals of the
\* stopped ones, one removal; a container that does not run gets no stop
\* and one removal; no other container gets a stop or a removal.
C28_Buckets ==
    [][PruneConfirmed(inv', calls') =>
        \A f \in Folders :
            IF Looked(world, inv', f) /\ IsOrphan(world, f)
            THEN /\ Cardinality(CallsOn(calls', "stop", f)) = 1
                 /\ Cardinality(CallsOn(calls', "rm", f)) = 1
                 /\ \A g \in Folders :
                       (Looked(world, inv', g) /\ world.cont[g] # "running") =>
                          \A i \in CallsOn(calls', "rm", g),
                             j \in CallsOn(calls', "rm", f) : i < j
            ELSE IF Looked(world, inv', f) /\ world.cont[f] # "running"
            THEN /\ CallsOn(calls', "stop", f) = {}
                 /\ Cardinality(CallsOn(calls', "rm", f)) = 1
            ELSE /\ CallsOn(calls', "stop", f) = {}
                 /\ CallsOn(calls', "rm", f) = {}]_vars

\* prune in the repository: the worktree's container ran in a directory
\* that is gone and was stopped and removed, the stopped main container
\* was removed
C28_Witness ==
    /\ PruneConfirmed(inv, calls)
    /\ ~inv.all
    /\ Cardinality(CallsOn(calls, "stop", Wt1)) = 1
    /\ Cardinality(CallsOn(calls, "rm", Wt1)) = 1
    /\ CallsOn(calls, "stop", MainRoot) = {}
    /\ Cardinality(CallsOn(calls, "rm", MainRoot)) = 1
    /\ world.cont[Wt1] = "none"
    /\ world.cont[MainRoot] = "none"

----------------------------------------------------------------------------
(* stop --all: the order of the stops.  The worktree of the repository may *)
(* be on any branch, the branch named main included (the checkout in the   *)
(* root is then on another one).                                           *)

InitStopAllWorlds ==
    LET base == Scaffolded(EmptyWorld, MainRoot, "MyApp")
    IN {[w EXCEPT !.cont[MainRoot] = cm, !.cont[Wt1] = cw] :
            w \in Layouts \cup {WithWorktree(base, "main", TRUE)},
            cm \in ContStates, cw \in {"none", "running"}}

InitStopAll ==
    /\ world \in InitStopAllWorlds
    /\ inv = DefaultArgs
    /\ calls = <<>>
    /\ status = "ok"
    /\ created = "none"
    /\ cache = <<>>
    /\ pc = "idle"
    /\ todo = <<>>
    /\ inode0 = <<>>
    /\ procs = <<>>
    /\ parsed_mounts = <<>>
    /\ batch_names = <<>>
    /\ stale_worktrees = NotAsked
    /\ cfg = <<>>

SpecStopAll == InitStopAll /\ [][NextStop]_vars

\* C29: stop --all issues the stops of all worktree workspaces before the
\* stop of the main workspace.
C29_AsStated ==
    (inv.stop /\ inv.all) =>
        \A i, j \in 1..Len(calls) :
            (/\ calls[i].op = "stop" /\ calls[i].target = MainRoot
             /\ calls[j].op = "stop" /\ calls[j].target # MainRoot) => j < i

\* what the code keeps to: a worktree stands before the root when the word
\* it is listed with, its branch or else its directory name, is not "main"
C29_OtherBranchesFirst ==
    (inv.stop /\ inv.all) =>
        \A i, j \in 1..Len(calls) :
            (/\ calls[i].op = "stop" /\ calls[i].target = MainRoot
             /\ calls[j].op = "stop" /\ calls[j].target # MainRoot
             /\ \A e \in world.gitwt :
                   e.path = calls[j].target => e.branch # "main") => j < i

\* the worktree 1-feat is on the branch main: the root was stopped first
C29_Witness ==
    /\ inv.stop /\ inv.all
    /\ \E e \in world.gitwt : e.path = Wt1 /\ e.branch = "main"
    /\ \E i, j \in 1..Len(calls) :
          /\ i < j
          /\ calls[i] = Call("stop", MainRoot, "", 0)
          /\ calls[j] = Call("stop", Wt1, "", 0)

----------------------------------------------------------------------------
(* spawn, with the preparation loop taken apart: one round of the loop is  *)
(* one step, the launches, exits and joins follow as in SpecSpawn.         *)
(*   pc    "prepare" while the loop over worktree_names runs               *)
(*   todo  in "prepare": the paths the loop has not come to yet            *)

\* run_spawn_mode up to the head of the preparation loop
SpawnEnter ==
    \E a \in SpawnArgs :
        /\ pc = "idle"
        /\ Dispatch(a) = "spawn"
        /\ ~check_tmux_guard(a) /\ a.spawn >= 1
        /\ inv' = a
        /\ calls' = <<>>
        /\ status' = "run"
        /\ created' = "none"
        /\ pc' = "prepare"
        /\ todo' = SpawnPaths(find_git_root(world, a.cwd),
                              SpawnNames(a, DefaultOutcome, 1, {}))
        /\ procs' = <<>>
        /\ UNCHANGED <<stale_worktrees, batch_names, world, parsed_mounts, cfg, cache, inode0>>

\* the state of the process after round i of the loop
RoundDone(res, rest, worktree_paths) ==
    /\ world' = res.w
    /\ calls' = res.calls
    /\ status' = res.status
    /\ created' = res.created
    /\ pc' = IF res.status # "run" THEN "idle"
             ELSE IF rest = <<>> THEN "launch" ELSE "prepare"
    /\ todo' = IF res.status # "run" THEN <<>>
               ELSE IF rest = <<>> THEN worktree_paths ELSE rest

\* a faulty variant: the container of a worktree is launched as soon as
\* the worktree is prepared
SpawnPrepareOne_eager ==
    /\ pc = "prepare"
    /\ RoundDone(
          LaunchEach(
              SpawnPrepare(
                  [w |-> world, calls |-> calls, status |-> "run", created |-> created],
                  find_git_root(world, inv.cwd),
                  SubSeq(SpawnNames(inv, DefaultOutcome, 1, {}), 1,
                         inv.spawn - Len(todo) + 1),
                  inv.spawn - Len(todo) + 1, inv, DefaultOutcome),
              <<Head(todo)>>, inv.new),
          Tail(todo),
          SpawnPaths(find_git_root(world, inv.cwd),
                     SpawnNames(inv, DefaultOutcome, 1, {})))
    /\ UNCHANGED <<stale_worktrees, batch_names, inv, procs, parsed_mounts, cfg, cache, inode0>>

\* one round of for i, name in enumerate(worktree_names)
SpawnPrepareOne ==
    /\ pc = "prepare"
    /\ RoundDone(
          SpawnPrepare(
              [w |-> world, calls |-> calls, status |-> "run", created |-> created],
              find_git_root(world, inv.cwd),
              SubSeq(SpawnNames(inv, DefaultOutcome, 1, {}), 1,
                     inv.spawn - Len(todo) + 1),
              inv.spawn - Len(todo) + 1, inv, DefaultOutcome),
          Tail(todo),
          SpawnPaths(find_git_root(world, inv.cwd),
                     SpawnNames(inv, DefaultOutcome, 1, {})))
    /\ UNCHANGED <<stale_worktrees, batch_names, inv, procs, parsed_mounts, cfg, cache, inode0>>

NextSpawnSeq ==
    \/ SpawnEnter \/ SpawnPrepareOne
    \/ SpawnPopen \/ UpExits \/ SpawnJoin \/ SpawnReport

SpecSpawnSeq == InitDestroy /\ [][NextSpawnSeq]_vars

\* the worktree is there and what the loop does for it is done
Prepared(w, path) ==
    /\ path \in w.dirs
    /\ path \in w.creds
    /\ path \in w.emacs
    /\ path \in w.hist

AddCalls(cs) == {i \in 1..Len(cs) : cs[i].op = "git_worktree_add"}

Launched(cs) == \E i \in 1..Len(cs) : cs[i].op = "popen_up"

\* C30: during spawn the worktrees are created one at a time, no step
\* creating more than one and none while a devcontainer up process exists,
\* and when the first devcontainer up is launched all N worktrees are
\* created or reused and prepared.
C30_AllPreparedBeforeLaunch ==
    [][/\ Cardinality((world'.dirs \ world.dirs) \cap WtPaths) <= 1
       /\ calls' # <<>> => Cardinality(AddCalls(calls')) <= Cardinality(AddCalls(calls)) + 1
       /\ (world'.dirs \cap WtPaths) # (world.dirs \cap WtPaths) =>
             (procs = <<>> /\ ~Launched(calls'))
       /\ Launched(calls') =>
             /\ \A i \in 1..inv'.spawn :
                   Prepared(world', get_worktree_path(MainRoot,
                                        SpawnName(i, SpawnPrefix)))
             /\ \A i \in AddCalls(calls'), j \in 1..Len(calls') :
                   calls'[j].op = "popen_up" => i < j]_vars

\* spawn 2: both worktrees were created by the run, each in its own round,
\* both are prepared and both processes are launched
C30_Witness ==
    /\ inv.spawn = 2
    /\ Cardinality(AddCalls(calls)) = 2
    /\ Len(procs) = 2
    /\ \A i \in 1..2 :
          Prepared(world, get_worktree_path(MainRoot, SpawnName(i, SpawnPrefix)))

----------------------------------------------------------------------------
(* The same command given again: start, tree and spawn, each with the same *)
(* options as before, against workspaces earlier invocations have made.    *)

\* user mounts one descriptor may hold before the model stops repeating
MaxRepeats == 2

RepeatMount == "~/data:foo:ro"

Repeated(a, res) ==
    /\ \A p \in DOMAIN res.w.json : UserMountCount(res.w.json[p]) <= MaxRepeats
    /\ world' = res.w
    /\ inv' = a
    /\ calls' = res.calls
    /\ status' = res.status
    /\ created' = res.created
    /\ UNCHANGED <<stale_worktrees, batch_names, parsed_mounts, cfg, procs, cache, pc, todo, inode0>>

StartAgain ==
    \E cwd \in Cwds(world), m \in {<<>>, <<RepeatMount>>} :
        LET a == [DefaultArgs EXCEPT !.cwd = cwd, !.start = TRUE,
                                     !.detach = TRUE, !.mount = m]
        IN Repeated(a, run_default_mode(world, a, DefaultOutcome))

TreeAgain ==
    \E m \in {<<>>, <<RepeatMount>>} :
        LET a == [DefaultArgs EXCEPT !.tree = "", !.detach = TRUE, !.mount = m]
        IN Repeated(a, run_tree_mode(world, a, DefaultOutcome))

SpawnAgain ==
    \E n \in 1..MaxSpawn, m \in {<<>>, <<RepeatMount>>} :
        LET a == [DefaultArgs EXCEPT !.spawn_given = TRUE, !.spawn = n,
                                     !.prefix = SpawnPrefix, !.mount = m]
        IN Repeated(a, run_spawn_mode(world, a, DefaultOutcome))

InitRepeat ==
    /\ world \in {EmptyWorld} \cup {w \in InitCallWorlds : w.cont[MainRoot] = "none"}
    /\ inv = DefaultArgs
    /\ calls = <<>>
    /\ status = "ok"
    /\ created = "none"
    /\ cache = <<>>
    /\ pc = "idle"
    /\ todo = <<>>
    /\ inode0 = <<>>
    /\ procs = <<>>
    /\ parsed_mounts = <<>>
    /\ batch_names = <<>>
    /\ stale_worktrees = NotAsked
    /\ cfg = <<>>

NextRepeat == StartAgain \/ TreeAgain \/ SpawnAgain

SpecRepeat == InitRepeat /\ [][NextRepeat]_vars

\* the entry with a host path of the user's home as its source
IsUserMount(m) == Len(m) >= 17 /\ SubSeq(m, 1, 17) = "source=/home/dev/"

\* C31: whatever sequence of start, tree and spawn invocations was given
\* the same --mount against a workspace, the mounts array of its
\* descriptor holds that user mount at most once.
C31_AsStated ==
    \A p \in DOMAIN world.json :
        world.json[p].kind = "json" =>
            \A i, j \in 1..Len(world.json[p].mounts) :
                (i < j /\ IsUserMount(world.json[p].mounts[i]))
                    => world.json[p].mounts[i] # world.json[p].mounts[j]

\* what one invocation keeps to: a descriptor that was there gains at most
\* as many user mounts as --mount options were given
C31_OncePerInvocation ==
    [][\A p \in DOMAIN world.json :
          world.json[p].kind = "json" =>
          UserMountCount(world'.json[p])
              <= UserMountCount(world.json[p]) + Len(inv'.mount)]_vars

\* start --mount ~/data:foo:ro, twice: the descriptor of the repository
\* holds the mount twice
C31_Witness ==
    /\ inv.start
    /\ inv.mount = <<RepeatMount>>
    /\ world.json[MainRoot].kind = "json"
    /\ Cardinality({i \in 1..Len(world.json[MainRoot].mounts) :
          world.json[MainRoot].mounts[i] =
            "source=/home/dev/data,target=/workspaces/MyApp/foo,type=bind,readonly"})
         = 2

\* the bind mount of the main repository's .git, same path on both sides
MainGitMount == "source=/dev/MyApp/.git,target=/dev/MyApp/.git,type=bind"

GitMountCount(c) ==
    IF c.kind # "json" THEN 0
    ELSE Cardinality({i \in 1..Len(c.mounts) : c.mounts[i] = MainGitMount})

\* the worktrees that are there
PresentWorktrees(w) == WtPaths \cap w.dirs

\* C32: get_or_create_worktree on a worktree path that exists gives back
\* what it was given, no git command run and no descriptor touched; and so,
\* however often tree and spawn are invoked for a worktree name, the
\* descriptor of the worktree holds the mount of the main repository's
\* .git exactly once, put there when the worktree was created.
C32_GitMountOnce ==
    [][/\ \A p \in PresentWorktrees(world) :
             /\ get_or_create_worktree(Begin(world), MainRoot, PathName(p), p,
                                       DEFAULT_CONFIG, None, DefaultOutcome)
                   = Begin(world)
             /\ \A i \in 1..Len(calls') :
                   calls'[i].op = "git_worktree_add" => calls'[i].target # p
             /\ GitMountCount(world'.json[p]) = GitMountCount(world.json[p])
       /\ \A p \in PresentWorktrees(world') :
             /\ world'.json[p].kind = "json"
             /\ GitMountCount(world'.json[p]) = 1]_vars

\* tree given again for brave-panda: the worktree was found in place, no
\* git worktree add was run, and the .git mount is there once
C32_Witness ==
    /\ inv.tree # None
    /\ status = "ok"
    /\ get_worktree_path(MainRoot, "brave-panda") \in world.dirs
    /\ \A i \in 1..Len(calls) : calls[i].op # "git_worktree_add"
    /\ GitMountCount(world.json[get_worktree_path(MainRoot, "brave-panda")]) = 1
    /\ world.cont[get_worktree_path(MainRoot, "brave-panda")] = "running"

----------------------------------------------------------------------------
(* Attaching from inside a tmux session.                                   *)

\* tmux attach on the host, and tmux new-session -A -s dev in a container
AttachOps == {"tmux_attach", "exec_tmux"}

\* C33: with TMUX set in the environment no command, whatever its
\* modifiers, runs a host-side tmux attach or the attach-or-create of the
\* dev session.
C33_AsStated ==
    inv.tmux => \A i \in 1..Len(calls) : calls[i].op \notin AttachOps

\* what main keeps to: with TMUX set an attach is run only when one of the
\* modifiers that skip the guard was given
C33_OnlyWhenGuardSkipped ==
    inv.tmux =>
        \A i \in 1..Len(calls) :
            calls[i].op \in AttachOps =>
                inv.detach \/ Given(inv.prompt) \/ inv.shell \/ Given(inv.run)

\* spawn --prompt from inside tmux: the session spawn was built and tmux
\* attach -t spawn was run
C33_Witness ==
    /\ inv.tmux
    /\ inv.spawn >= 1
    /\ inv.prompt = SpawnPrompt
    /\ pc = "idle"
    /\ calls # <<>>
    /\ calls[Len(calls)] = Call("tmux_attach", NoRoot, "spawn", 0)

----------------------------------------------------------------------------
(* stop --all: what is said when the loop has stopped nothing.             *)

SaidNoneRunning(cs) ==
    \E i \in 1..Len(cs) : cs[i].op = "print" /\ cs[i].arg = NoneRunning

\* is_container_running answered yes for some workspace
DetectedRunning(cs) == \E i \in 1..Len(cs) : cs[i].op = "probe" /\ cs[i].rc = 0

\* C34: stop --all says "No running containers found for this project"
\* only when no existing workspace of the project had a container detected
\* running; a run whose containers ran and whose stops failed does not
\* say so.
C34_AsStated ==
    (inv.stop /\ inv.all /\ SaidNoneRunning(calls)) => ~DetectedRunning(calls)

\* what the code keeps to: the sentence is printed exactly when no stop of
\* the run exited 0
C34_SaidWhenNoneStopped ==
    (inv.stop /\ inv.all /\ status = "ok") =>
        (SaidNoneRunning(calls) <=>
            ~\E i \in 1..Len(calls) : calls[i].op = "stop" /\ calls[i].rc = 0)

\* the main container was found running, its stop failed, and the run said
\* that no container was running
C34_Witness ==
    /\ inv.stop /\ inv.all
    /\ \E i, j \in 1..Len(calls) :
          /\ i < j
          /\ calls[i].op = "probe" /\ calls[i].target = MainRoot /\ calls[i].rc = 0
          /\ calls[j] = Call("stop", MainRoot, "", 1)
    /\ SaidNoneRunning(calls)
    /\ world.cont[MainRoot] = "running"

----------------------------------------------------------------------------
(* spawn --prompt: the agent each window runs.                             *)

\* what may stand after --agent; None: the option was not given
AgentOptions == {None, "claude", "gemini", "aider"}

Spawned(a, res) ==
    /\ world' = res.w
    /\ inv' = a
    /\ calls' = res.calls
    /\ status' = res.status
    /\ created' = res.created
    /\ UNCHANGED <<stale_worktrees, batch_names, parsed_mounts, cfg, procs, cache, pc, todo, inode0>>

SpawnAgentsCmd ==
    \E n \in 1..MaxSpawn, ag \in AgentOptions, uf \in SUBSET (1..MaxSpawn) :
        LET a == [DefaultArgs EXCEPT !.spawn_given = TRUE, !.spawn = n,
                                     !.prefix = SpawnPrefix,
                                     !.prompt = SpawnPrompt,
                                     !.agent = IF ag = None THEN "claude" ELSE ag,
                                     !.agent_given = (ag # None)]
        IN Spawned(a, run_spawn_mode(world, a,
                        [DefaultOutcome EXCEPT !.up_fail = uf]))

SpecAgents == InitDestroy /\ [][SpawnAgentsCmd]_vars

\* the send-keys calls of the run, one per window, in window order
Sends(cs) == SelectSeq(cs, LAMBDA c : c.op = "tmux_send_keys")

\* agent_commands.get(name, name)
CommandOf(name) ==
    IF name \in DOMAIN DEFAULT_CONFIG.agent_commands
    THEN DEFAULT_CONFIG.agent_commands[name] ELSE name

\* agents[i mod number of agents], i counted from 0
RoundRobin(i) ==
    CommandOf(DEFAULT_CONFIG.agents[(i % Len(DEFAULT_CONFIG.agents)) + 1])

\* what window k (from 1) is sent when it runs the command cmd
SentWith(c, cmd, prompt) ==
    c.arg = "spawn:" \o PathName(c.target) \o " " \o cmd \o " " \o prompt

\* C35: in the spawn session every window runs the command of the agent
\* given with --agent, whichever agent that is; without --agent window i
\* (from 0) runs the command of agents[i mod number of agents].
C35_AsStated ==
    (inv.spawn_given /\ Given(inv.prompt)) =>
        \A k \in 1..Len(Sends(calls)) :
            SentWith(Sends(calls)[k],
                     IF inv.agent_given THEN CommandOf(inv.agent)
                     ELSE RoundRobin(k - 1),
                     inv.prompt)

\* what the code keeps to: an agent other than claude is run in every
\* window; claude, given or not, means round-robin
C35_ClaudeIsNoOverride ==
    (inv.spawn_given /\ Given(inv.prompt)) =>
        \A k \in 1..Len(Sends(calls)) :
            SentWith(Sends(calls)[k],
                     IF inv.agent # "claude" THEN CommandOf(inv.agent)
                     ELSE RoundRobin(k - 1),
                     inv.prompt)

\* spawn 2 --agent claude --prompt "fix it": the second window runs gemini
C35_Witness ==
    /\ inv.spawn = 2
    /\ inv.agent_given /\ inv.agent = "claude"
    /\ Len(Sends(calls)) = 2
    /\ SentWith(Sends(calls)[1], "claude --dangerously-skip-permissions", SpawnPrompt)
    /\ SentWith(Sends(calls)[2], "gemini --yolo", SpawnPrompt)

----------------------------------------------------------------------------
(* spawn: the naming loop on its own, for batches of up to MaxNames.       *)

MaxNames == 4

\* RandomNames holds fewer names than MaxNames, so that a batch can run out
\* of unused ones

\* the batch: N, the prefix, and per name the random name the retry loop
\* ends on (an unused one, or a used one when all attempts collided)
NameBatch ==
    \E n \in 1..MaxNames, prefix \in {None, SpawnPrefix},
       d \in [1..MaxNames -> RandomNames] :
        LET a == [DefaultArgs EXCEPT !.spawn_given = TRUE, !.spawn = n,
                                     !.prefix = prefix]
        IN /\ inv' = a
           /\ batch_names' =
                  SpawnNames(a, [DefaultOutcome EXCEPT !.draws = d], 1, {})
           /\ UNCHANGED <<stale_worktrees, world, calls, status, created, cache, pc, todo,
                          inode0, procs, cfg, parsed_mounts>>

SpecNames == InitDestroy /\ [][NameBatch]_vars

\* the part of the k-th name after its index
PartOf(k) ==
    CHOOSE p \in RandomNames \cup {FallbackPart(k), SpawnPrefix} :
        batch_names[k] = SpawnName(k, p)

----------------------------------------------------------------------------
(* spawn: the ports of a batch.                                            *)

\* the workspace of the k-th name (k from 1) of the last spawn
BatchPath(k) ==
    get_worktree_path(find_git_root(world, inv.cwd),
                      SpawnName(k, inv.prefix))

\* the port of position k - 1
AssignedPort(k) == ToString(DEFAULT_CONFIG.base_port + (k - 1))

\* C37: after spawn has prepared its batch, the descriptor of the k-th
\* workspace (k from 1) has PORT = base port + (k - 1), so the ports of the
\* batch are pairwise distinct; this holds as well for a worktree an
\* earlier batch had created.
C37_PortsAssigned ==
    (inv.spawn_given /\ status = "ok") =>
        \A k \in 1..inv.spawn :
            /\ world.json[BatchPath(k)] # Absent
            /\ world.json[BatchPath(k)].kind = "json"
            /\ world.json[BatchPath(k)].port = AssignedPort(k)
            /\ \A j \in 1..(k - 1) : AssignedPort(j) # AssignedPort(k)

\* a batch of two, both worktrees left by an earlier batch (none is added
\* now), with the ports 4000 and 4001
C37_Witness ==
    /\ inv.spawn_given /\ inv.spawn = 2 /\ status = "ok"
    /\ \A i \in 1..Len(calls) : calls[i].op # "git_worktree_add"
    /\ world.json[BatchPath(1)].kind = "json"
    /\ world.json[BatchPath(1)].port = "4000"
    /\ world.json[BatchPath(2)].kind = "json"
    /\ world.json[BatchPath(2)].port = "4001"

----------------------------------------------------------------------------
(* The credential copies after a refresh.                                  *)

\* the names a refresh may copy into a cache directory
AllowListed(d) ==
    IF d = "claude"
    THEN {ClaudeFiles[i] : i \in DOMAIN ClaudeFiles} \cup {"statsig"}
    ELSE {GeminiFiles[i] : i \in DOMAIN GeminiFiles}

\* every entry of the two cache directories is allow-listed and has its
\* source on the host
CacheDirsCurrent(c) ==
    \A d \in CacheDirs : \A e \in c[d].entries :
        e.name \in AllowListed(d) /\ <<d, e.name>> \in c.host

\* the step that ends a refresh normally
RefreshEnds == pc # "idle" /\ pc' = "idle" /\ status' = "ok"

\* C38: when a refresh ends, the cache directories and the copied
\* .claude.json hold only allow-listed entries whose host source exists at
\* the refresh; a copy whose host source has gone is no longer there.
C38_AsStated ==
    [][RefreshEnds =>
          /\ CacheDirsCurrent(cache')
          /\ cache'.claude_json => <<"home", ".claude.json">> \in cache'.host]_vars

\* what the code keeps to: the two cache directories are current, and
\* .claude.json is there when the host has one
C38_CacheDirsCurrent ==
    [][RefreshEnds =>
          /\ CacheDirsCurrent(cache')
          /\ <<"home", ".claude.json">> \in cache'.host => cache'.claude_json]_vars

\* a refresh with nothing on the host has ended normally: the directory
\* that held two copies is empty, the .claude.json of an earlier refresh
\* is still there
C38_Witness ==
    /\ pc = "idle" /\ status = "ok"
    /\ inv.call = "setup_credential_cache"
    /\ cache.host = {}
    /\ cache.claude.inode = 1 /\ cache.claude.entries = {}
    /\ cache.claude_json

----------------------------------------------------------------------------
(* find_stale_worktrees on its own, in worlds that prune and tree change.  *)

\* the call, from the repository or from a worktree of it; git worktree
\* list succeeds or exits non-zero
FindStale ==
    \E cwd \in Cwds(world), git \in BOOLEAN :
        /\ stale_worktrees' =
              [asked |-> TRUE, git_ok |-> git,
               found |-> find_stale_worktrees(world,
                                              find_git_root(world, cwd), git)]
        /\ UNCHANGED <<world, inv, calls, status, created, cache, pc, todo,
                       inode0, procs, cfg, parsed_mounts, batch_names>>

NextStale == FindStale \/ PruneCmd \/ TreeAgain

SpecStale == InitDestroy /\ [][NextStale]_vars

\* the worktrees git has registered whose directory is gone
GoneWorktrees(w) == {e \in w.gitwt : e.path # MainRoot /\ e.path \notin w.dirs}

\* C39: find_stale_worktrees returns, each once, exactly the worktrees git
\* lists, the main root aside, whose path is not on disk, never the main
\* root or a worktree that exists; it returns the empty sequence when git
\* worktree list exits non-zero.
C39_StaleExactly ==
    [][stale_worktrees' # stale_worktrees =>
        LET found == stale_worktrees'.found
        IN IF ~stale_worktrees'.git_ok THEN found = <<>>
           ELSE /\ {found[i] : i \in DOMAIN found} = GoneWorktrees(world)
                /\ Len(found) = Cardinality(GoneWorktrees(world))
                /\ \A i \in DOMAIN found :
                       found[i].path # MainRoot /\ found[i].path \notin world.dirs]_vars

\* git lists the main root, a worktree that exists and one whose directory
\* is gone: the call returned the last one alone
C39_Witness ==
    /\ stale_worktrees.asked /\ stale_worktrees.git_ok
    /\ Len(stale_worktrees.found) = 1
    /\ stale_worktrees.found[1] \in GoneWorktrees(world)
    /\ \E e \in world.gitwt : e.path \in world.dirs

====
